---- MODULE Spec2Model ----
(***************************************************************************)
(* Admission and delivery-guarantee layer of the LTX video generation      *)
(* service: the job store (database.py), the orchestrator (handler.py),    *)
(* the webhook dispatcher (webhooks.py), the error sanitizer (utils.py),   *)
(* the rate limiters (auth.py, database.py), the input validators          *)
(* (validation.py), the authenticator (auth.py), the webhook signature     *)
(* (webhooks.py), the serverless entry point (handler.handler), the key    *)
(* settings (config.py) and the REST server's job map (api_server.py).     *)
(*                                                                         *)
(* Conventions                                                             *)
(*   - a nullable column or Optional value is a sequence of length 0 or 1: *)
(*     Null == <<>>, Some(x) == <<x>>;                                     *)
(*   - a Python str whose content matters (exception text, error_message)  *)
(*     is the sequence of its code points (Str writes one from its         *)
(*     printable ASCII characters);                                        *)
(*   - a dict is a function whose DOMAIN is the set of keys present;       *)
(*   - time is in whole seconds.                                           *)
(***************************************************************************)
EXTENDS Integers, Sequences, FiniteSets, TLC

VARIABLES
    jobs,        \* table video_jobs: job_id -> row
    clock,       \* CURRENT_TIMESTAMP / datetime.utcnow(): in seconds where a
                 \* limiter runs, in half seconds where a job or the
                 \* dispatcher runs (a backoff has half seconds)
    calls,       \* number of job-store calls made so far (exploration bound)
    \* one run of handler.process_job, or of the dispatcher on its own
    pc,          \* position in process_job
    exc,         \* the exception caught at "except Exception as e", or Null
    localFile,   \* the file at video_path exists on the local disk
    generated,   \* generate_video returned a video_path
    ret,         \* the dictionary process_job returned, or Null
    whSite,      \* who called the dispatcher: "success" | "failure" (the sites
                 \* of process_job) | "custom" (send_custom_webhook) |
                 \* "direct" (a call of deliver_webhook itself)
    attempt,     \* parameter attempt of the running deliver_webhook
    payload,     \* payload handed to deliver_webhook
    \* what the environment observed during the run (history)
    posts,       \* the POSTs sent, in order, each with its answer once it came
    sleeps,      \* the asyncio.sleep durations in half seconds, in order
    sites,       \* the callers of the dispatcher, in order
    whResult,    \* value the dispatcher returned (not kept at the failure site)
    dbFault,     \* some database call of the run raised DatabaseError
    completeOk,  \* complete_job returned normally
    trace,       \* the calls process_job made and how they ended, in order
    \* auth.InMemoryRateLimiter
    requests,    \* self._requests: key_hash -> list of timestamps
    admitted,    \* history: key_hash -> times of the calls that returned True
    lastCall,    \* history: the latest check_rate_limit call, or Null
    \* the persistent rate-limit backend
    rate_limit_log,  \* table rate_limit_log: rows [key_hash, request_time]
    api_keys,        \* table api_keys: key_hash -> row
    req,             \* the requests in flight: id -> [pc, key, count, limit]
    \* one application of a validator, of the authenticator or of the signer
    fnIn,        \* the arguments and the environment the call runs in
    fnOut        \* what the calls made so far returned or raised

storeVars == <<jobs, clock, calls>>
procVars == <<pc, exc, localFile, generated, ret, whSite, attempt, payload,
              posts, sleeps, sites, whResult, dbFault, completeOk, trace>>
limVars == <<requests, admitted, lastCall>>
rlVars == <<rate_limit_log, api_keys, req>>
fnVars == <<fnIn, fnOut>>
vars == <<storeVars, procVars, limVars, rlVars, fnVars>>

----------------------------------------------------------------------------
(* Bounds of the exploration *)

MaxClock == 2
MaxCalls == 4

(* Program constants *)

ERROR_MESSAGE_MAX == 4000
WEBHOOK_MAX_RETRIES == 3

----------------------------------------------------------------------------
(* Values *)

Null == <<>>
Some(x) == <<x>>
IsNull(o) == Len(o) = 0
Val(o) == o[1]

Take(s, n) == IF Len(s) <= n THEN s ELSE SubSeq(s, 1, n)

JobIds == {"j1", "j2"}
KeyHashes == {"k1", "k2"}
Statuses == {"queued", "processing", "completed", "failed"}
Terminal == {"completed", "failed"}

\* The printable ASCII characters in code point order, from the blank (32);
\* "grave" stands for U+0060
Ascii ==
    << " ", "!", "\"", "#", "$", "%", "&", "'", "(", ")", "*", "+", ",", "-", ".", "/",
       "0", "1", "2", "3", "4", "5", "6", "7", "8", "9", ":", ";", "<", "=", ">", "?",
       "@", "A", "B", "C", "D", "E", "F", "G", "H", "I", "J", "K", "L", "M", "N", "O",
       "P", "Q", "R", "S", "T", "U", "V", "W", "X", "Y", "Z", "[", "\\", "]", "^", "_",
       "grave", "a", "b", "c", "d", "e", "f", "g", "h", "i", "j", "k", "l", "m", "n", "o",
       "p", "q", "r", "s", "t", "u", "v", "w", "x", "y", "z", "{", "|", "}", "~" >>

\* The code point of a printable ASCII character
Ord(ch) == 31 + (CHOOSE i \in 1..Len(Ascii) : Ascii[i] = ch)

\* The str whose characters are written one by one in t
Str(t) == [i \in 1..Len(t) |-> Ord(t[i])]

\* What a call returned or raised
Returned(v) == [kind |-> "return", value |-> v, error |-> "none", why |-> "none"]
Raised(error, why) == [kind |-> "raise", value |-> Null, error |-> error, why |-> why]

\* The UTF-8 bytes of one character
encode_char(c) ==
    IF c < 128 THEN <<c>>
    ELSE IF c < 2048 THEN <<192 + (c \div 64), 128 + (c % 64)>>
    ELSE IF c < 65536
    THEN <<224 + (c \div 4096), 128 + ((c \div 64) % 64), 128 + (c % 64)>>
    ELSE <<240 + (c \div 262144), 128 + ((c \div 4096) % 64),
           128 + ((c \div 64) % 64), 128 + (c % 64)>>

RECURSIVE utf8(_)
utf8(str) == IF str = <<>> THEN <<>> ELSE encode_char(Head(str)) \o utf8(Tail(str))

\* str.encode(): the UTF-8 bytes; a surrogate (U+D800..U+DFFF) cannot be
\* encoded
encode(str) ==
    IF \E i \in 1..Len(str) : str[i] \in 55296..57343
    THEN Raised("UnicodeEncodeError", "surrogates not allowed")
    ELSE Returned(utf8(str))

\* Exception texts.
MsgPlain == Str(<<"o","u","t"," ","o","f"," ","m","e","m","o","r","y">>)
MsgPath  == Str(<<"n","o"," ","f","i","l","e"," ","/","t","m","p","/","a",".","p","n","g">>)

\* The exceptions the steps of process_job raise: class name and str(e).
ExcValidation == [type |-> Str(<<"V","a","l","i","d","a","t","i","o","n","E","r","r","o","r">>),
                  msg  |-> Str(<<"4","0","0",":"," ","b","a","d"," ","s","e","e","d">>)]
ExcDatabase   == [type |-> Str(<<"D","a","t","a","b","a","s","e","E","r","r","o","r">>),
                  msg  |-> Str(<<"p","o","o","l"," ","0","x","1","f"," ","b","u","s","y">>)]
ExcGenerate   == [type |-> Str(<<"E","x","c","e","p","t","i","o","n">>),
                  msg  |-> Str(<<"f","a","i","l","e","d"," ","a","t"," ","l","i","n","e"," ","1","2">>)]
ExcStorage    == [type |-> Str(<<"S","t","o","r","a","g","e","E","r","r","o","r">>),
                  msg  |-> Str(<<"n","o","t"," ","f","o","u","n","d",":"," ","/","t","m","p","/","a",".","m","p","4">>)]
ExcRemove     == [type |-> Str(<<"P","e","r","m","i","s","s","i","o","n","E","r","r","o","r">>),
                  msg  |-> Str(<<"d","e","n","i","e","d",":"," ","C",":","\\","o","u","t","\\","a",".","m","p","4">>)]

\* (video_url, object_name, generation_time) triples handed to complete_job
Results == { <<"url1", "obj1", 7>>, <<"url2", "obj2", 9>> }

----------------------------------------------------------------------------
(* Text: utils.py                                                          *)

Lower == Ord("a")..Ord("z")
Upper == Ord("A")..Ord("Z")
Digit == Ord("0")..Ord("9")

\* A str pattern is Unicode-aware.  \d matches every decimal digit (general
\* category Nd), given by its ranges of code points:
DecimalDigit ==
    UNION { r[1]..r[2] : r \in {
        <<48, 57>>, <<1632, 1641>>, <<1776, 1785>>, <<1984, 1993>>,
        <<2406, 2415>>, <<2534, 2543>>, <<2662, 2671>>, <<2790, 2799>>,
        <<2918, 2927>>, <<3046, 3055>>, <<3174, 3183>>, <<3302, 3311>>,
        <<3430, 3439>>, <<3558, 3567>>, <<3664, 3673>>, <<3792, 3801>>,
        <<3872, 3881>>, <<4160, 4169>>, <<4240, 4249>>, <<6112, 6121>>,
        <<6160, 6169>>, <<6470, 6479>>, <<6608, 6617>>, <<6784, 6793>>,
        <<6800, 6809>>, <<6992, 7001>>, <<7088, 7097>>, <<7232, 7241>>,
        <<7248, 7257>>, <<42528, 42537>>, <<43216, 43225>>,
        <<43264, 43273>>, <<43472, 43481>>, <<43504, 43513>>,
        <<43600, 43609>>, <<44016, 44025>>, <<65296, 65305>>,
        <<66720, 66729>>, <<68912, 68921>>, <<69734, 69743>>,
        <<69872, 69881>>, <<69942, 69951>>, <<70096, 70105>>,
        <<70384, 70393>>, <<70736, 70745>>, <<70864, 70873>>,
        <<71248, 71257>>, <<71360, 71369>>, <<71472, 71481>>,
        <<71904, 71913>>, <<72016, 72025>>, <<72784, 72793>>,
        <<73040, 73049>>, <<73120, 73129>>, <<92768, 92777>>,
        <<92864, 92873>>, <<93008, 93017>>, <<120782, 120831>>,
        <<123200, 123209>>, <<123632, 123641>>, <<125264, 125273>>,
        <<130032, 130041>> } }

\* \w matches every alphanumeric character (str.isalnum) and the underscore,
\* given by its ranges of code points:
WordChar ==
    UNION { r[1]..r[2] : r \in {
        <<48, 57>>, <<65, 90>>, <<95, 95>>, <<97, 122>>, <<170, 170>>,
        <<178, 179>>, <<181, 181>>, <<185, 186>>, <<188, 190>>,
        <<192, 214>>, <<216, 246>>, <<248, 705>>, <<710, 721>>,
        <<736, 740>>, <<748, 748>>, <<750, 750>>, <<880, 884>>,
        <<886, 887>>, <<890, 893>>, <<895, 895>>, <<902, 902>>,
        <<904, 906>>, <<908, 908>>, <<910, 929>>, <<931, 1013>>,
        <<1015, 1153>>, <<1162, 1327>>, <<1329, 1366>>, <<1369, 1369>>,
        <<1376, 1416>>, <<1488, 1514>>, <<1519, 1522>>, <<1568, 1610>>,
        <<1632, 1641>>, <<1646, 1647>>, <<1649, 1747>>, <<1749, 1749>>,
        <<1765, 1766>>, <<1774, 1788>>, <<1791, 1791>>, <<1808, 1808>>,
        <<1810, 1839>>, <<1869, 1957>>, <<1969, 1969>>, <<1984, 2026>>,
        <<2036, 2037>>, <<2042, 2042>>, <<2048, 2069>>, <<2074, 2074>>,
        <<2084, 2084>>, <<2088, 2088>>, <<2112, 2136>>, <<2144, 2154>>,
        <<2160, 2183>>, <<2185, 2190>>, <<2208, 2249>>, <<2308, 2361>>,
        <<2365, 2365>>, <<2384, 2384>>, <<2392, 2401>>, <<2406, 2415>>,
        <<2417, 2432>>, <<2437, 2444>>, <<2447, 2448>>, <<2451, 2472>>,
        <<2474, 2480>>, <<2482, 2482>>, <<2486, 2489>>, <<2493, 2493>>,
        <<2510, 2510>>, <<2524, 2525>>, <<2527, 2529>>, <<2534, 2545>>,
        <<2548, 2553>>, <<2556, 2556>>, <<2565, 2570>>, <<2575, 2576>>,
        <<2579, 2600>>, <<2602, 2608>>, <<2610, 2611>>, <<2613, 2614>>,
        <<2616, 2617>>, <<2649, 2652>>, <<2654, 2654>>, <<2662, 2671>>,
        <<2674, 2676>>, <<2693, 2701>>, <<2703, 2705>>, <<2707, 2728>>,
        <<2730, 2736>>, <<2738, 2739>>, <<2741, 2745>>, <<2749, 2749>>,
        <<2768, 2768>>, <<2784, 2785>>, <<2790, 2799>>, <<2809, 2809>>,
        <<2821, 2828>>, <<2831, 2832>>, <<2835, 2856>>, <<2858, 2864>>,
        <<2866, 2867>>, <<2869, 2873>>, <<2877, 2877>>, <<2908, 2909>>,
        <<2911, 2913>>, <<2918, 2927>>, <<2929, 2935>>, <<2947, 2947>>,
        <<2949, 2954>>, <<2958, 2960>>, <<2962, 2965>>, <<2969, 2970>>,
        <<2972, 2972>>, <<2974, 2975>>, <<2979, 2980>>, <<2984, 2986>>,
        <<2990, 3001>>, <<3024, 3024>>, <<3046, 3058>>, <<3077, 3084>>,
        <<3086, 3088>>, <<3090, 3112>>, <<3114, 3129>>, <<3133, 3133>>,
        <<3160, 3162>>, <<3165, 3165>>, <<3168, 3169>>, <<3174, 3183>>,
        <<3192, 3198>>, <<3200, 3200>>, <<3205, 3212>>, <<3214, 3216>>,
        <<3218, 3240>>, <<3242, 3251>>, <<3253, 3257>>, <<3261, 3261>>,
        <<3293, 3294>>, <<3296, 3297>>, <<3302, 3311>>, <<3313, 3314>>,
        <<3332, 3340>>, <<3342, 3344>>, <<3346, 3386>>, <<3389, 3389>>,
        <<3406, 3406>>, <<3412, 3414>>, <<3416, 3425>>, <<3430, 3448>>,
        <<3450, 3455>>, <<3461, 3478>>, <<3482, 3505>>, <<3507, 3515>>,
        <<3517, 3517>>, <<3520, 3526>>, <<3558, 3567>>, <<3585, 3632>>,
        <<3634, 3635>>, <<3648, 3654>>, <<3664, 3673>>, <<3713, 3714>>,
        <<3716, 3716>>, <<3718, 3722>>, <<3724, 3747>>, <<3749, 3749>>,
        <<3751, 3760>>, <<3762, 3763>>, <<3773, 3773>>, <<3776, 3780>>,
        <<3782, 3782>>, <<3792, 3801>>, <<3804, 3807>>, <<3840, 3840>>,
        <<3872, 3891>>, <<3904, 3911>>, <<3913, 3948>>, <<3976, 3980>>,
        <<4096, 4138>>, <<4159, 4169>>, <<4176, 4181>>, <<4186, 4189>>,
        <<4193, 4193>>, <<4197, 4198>>, <<4206, 4208>>, <<4213, 4225>>,
        <<4238, 4238>>, <<4240, 4249>>, <<4256, 4293>>, <<4295, 4295>>,
        <<4301, 4301>>, <<4304, 4346>>, <<4348, 4680>>, <<4682, 4685>>,
        <<4688, 4694>>, <<4696, 4696>>, <<4698, 4701>>, <<4704, 4744>>,
        <<4746, 4749>>, <<4752, 4784>>, <<4786, 4789>>, <<4792, 4798>>,
        <<4800, 4800>>, <<4802, 4805>>, <<4808, 4822>>, <<4824, 4880>>,
        <<4882, 4885>>, <<4888, 4954>>, <<4969, 4988>>, <<4992, 5007>>,
        <<5024, 5109>>, <<5112, 5117>>, <<5121, 5740>>, <<5743, 5759>>,
        <<5761, 5786>>, <<5792, 5866>>, <<5870, 5880>>, <<5888, 5905>>,
        <<5919, 5937>>, <<5952, 5969>>, <<5984, 5996>>, <<5998, 6000>>,
        <<6016, 6067>>, <<6103, 6103>>, <<6108, 6108>>, <<6112, 6121>>,
        <<6128, 6137>>, <<6160, 6169>>, <<6176, 6264>>, <<6272, 6276>>,
        <<6279, 6312>>, <<6314, 6314>>, <<6320, 6389>>, <<6400, 6430>>,
        <<6470, 6509>>, <<6512, 6516>>, <<6528, 6571>>, <<6576, 6601>>,
        <<6608, 6618>>, <<6656, 6678>>, <<6688, 6740>>, <<6784, 6793>>,
        <<6800, 6809>>, <<6823, 6823>>, <<6917, 6963>>, <<6981, 6988>>,
        <<6992, 7001>>, <<7043, 7072>>, <<7086, 7141>>, <<7168, 7203>>,
        <<7232, 7241>>, <<7245, 7293>>, <<7296, 7304>>, <<7312, 7354>>,
        <<7357, 7359>>, <<7401, 7404>>, <<7406, 7411>>, <<7413, 7414>>,
        <<7418, 7418>>, <<7424, 7615>>, <<7680, 7957>>, <<7960, 7965>>,
        <<7968, 8005>>, <<8008, 8013>>, <<8016, 8023>>, <<8025, 8025>>,
        <<8027, 8027>>, <<8029, 8029>>, <<8031, 8061>>, <<8064, 8116>>,
        <<8118, 8124>>, <<8126, 8126>>, <<8130, 8132>>, <<8134, 8140>>,
        <<8144, 8147>>, <<8150, 8155>>, <<8160, 8172>>, <<8178, 8180>>,
        <<8182, 8188>>, <<8304, 8305>>, <<8308, 8313>>, <<8319, 8329>>,
        <<8336, 8348>>, <<8450, 8450>>, <<8455, 8455>>, <<8458, 8467>>,
        <<8469, 8469>>, <<8473, 8477>>, <<8484, 8484>>, <<8486, 8486>>,
        <<8488, 8488>>, <<8490, 8493>>, <<8495, 8505>>, <<8508, 8511>>,
        <<8517, 8521>>, <<8526, 8526>>, <<8528, 8585>>, <<9312, 9371>>,
        <<9450, 9471>>, <<10102, 10131>>, <<11264, 11492>>,
        <<11499, 11502>>, <<11506, 11507>>, <<11517, 11517>>,
        <<11520, 11557>>, <<11559, 11559>>, <<11565, 11565>>,
        <<11568, 11623>>, <<11631, 11631>>, <<11648, 11670>>,
        <<11680, 11686>>, <<11688, 11694>>, <<11696, 11702>>,
        <<11704, 11710>>, <<11712, 11718>>, <<11720, 11726>>,
        <<11728, 11734>>, <<11736, 11742>>, <<11823, 11823>>,
        <<12293, 12295>>, <<12321, 12329>>, <<12337, 12341>>,
        <<12344, 12348>>, <<12353, 12438>>, <<12445, 12447>>,
        <<12449, 12538>>, <<12540, 12543>>, <<12549, 12591>>,
        <<12593, 12686>>, <<12690, 12693>>, <<12704, 12735>>,
        <<12784, 12799>>, <<12832, 12841>>, <<12872, 12879>>,
        <<12881, 12895>>, <<12928, 12937>>, <<12977, 12991>>,
        <<13312, 19903>>, <<19968, 42124>>, <<42192, 42237>>,
        <<42240, 42508>>, <<42512, 42539>>, <<42560, 42606>>,
        <<42623, 42653>>, <<42656, 42735>>, <<42775, 42783>>,
        <<42786, 42888>>, <<42891, 42954>>, <<42960, 42961>>,
        <<42963, 42963>>, <<42965, 42969>>, <<42994, 43009>>,
        <<43011, 43013>>, <<43015, 43018>>, <<43020, 43042>>,
        <<43056, 43061>>, <<43072, 43123>>, <<43138, 43187>>,
        <<43216, 43225>>, <<43250, 43255>>, <<43259, 43259>>,
        <<43261, 43262>>, <<43264, 43301>>, <<43312, 43334>>,
        <<43360, 43388>>, <<43396, 43442>>, <<43471, 43481>>,
        <<43488, 43492>>, <<43494, 43518>>, <<43520, 43560>>,
        <<43584, 43586>>, <<43588, 43595>>, <<43600, 43609>>,
        <<43616, 43638>>, <<43642, 43642>>, <<43646, 43695>>,
        <<43697, 43697>>, <<43701, 43702>>, <<43705, 43709>>,
        <<43712, 43712>>, <<43714, 43714>>, <<43739, 43741>>,
        <<43744, 43754>>, <<43762, 43764>>, <<43777, 43782>>,
        <<43785, 43790>>, <<43793, 43798>>, <<43808, 43814>>,
        <<43816, 43822>>, <<43824, 43866>>, <<43868, 43881>>,
        <<43888, 44002>>, <<44016, 44025>>, <<44032, 55203>>,
        <<55216, 55238>>, <<55243, 55291>>, <<63744, 64109>>,
        <<64112, 64217>>, <<64256, 64262>>, <<64275, 64279>>,
        <<64285, 64285>>, <<64287, 64296>>, <<64298, 64310>>,
        <<64312, 64316>>, <<64318, 64318>>, <<64320, 64321>>,
        <<64323, 64324>>, <<64326, 64433>>, <<64467, 64829>>,
        <<64848, 64911>>, <<64914, 64967>>, <<65008, 65019>>,
        <<65136, 65140>>, <<65142, 65276>>, <<65296, 65305>>,
        <<65313, 65338>>, <<65345, 65370>>, <<65382, 65470>>,
        <<65474, 65479>>, <<65482, 65487>>, <<65490, 65495>>,
        <<65498, 65500>>, <<65536, 65547>>, <<65549, 65574>>,
        <<65576, 65594>>, <<65596, 65597>>, <<65599, 65613>>,
        <<65616, 65629>>, <<65664, 65786>>, <<65799, 65843>>,
        <<65856, 65912>>, <<65930, 65931>>, <<66176, 66204>>,
        <<66208, 66256>>, <<66273, 66299>>, <<66304, 66339>>,
        <<66349, 66378>>, <<66384, 66421>>, <<66432, 66461>>,
        <<66464, 66499>>, <<66504, 66511>>, <<66513, 66517>>,
        <<66560, 66717>>, <<66720, 66729>>, <<66736, 66771>>,
        <<66776, 66811>>, <<66816, 66855>>, <<66864, 66915>>,
        <<66928, 66938>>, <<66940, 66954>>, <<66956, 66962>>,
        <<66964, 66965>>, <<66967, 66977>>, <<66979, 66993>>,
        <<66995, 67001>>, <<67003, 67004>>, <<67072, 67382>>,
        <<67392, 67413>>, <<67424, 67431>>, <<67456, 67461>>,
        <<67463, 67504>>, <<67506, 67514>>, <<67584, 67589>>,
        <<67592, 67592>>, <<67594, 67637>>, <<67639, 67640>>,
        <<67644, 67644>>, <<67647, 67669>>, <<67672, 67702>>,
        <<67705, 67742>>, <<67751, 67759>>, <<67808, 67826>>,
        <<67828, 67829>>, <<67835, 67867>>, <<67872, 67897>>,
        <<67968, 68023>>, <<68028, 68047>>, <<68050, 68096>>,
        <<68112, 68115>>, <<68117, 68119>>, <<68121, 68149>>,
        <<68160, 68168>>, <<68192, 68222>>, <<68224, 68255>>,
        <<68288, 68295>>, <<68297, 68324>>, <<68331, 68335>>,
        <<68352, 68405>>, <<68416, 68437>>, <<68440, 68466>>,
        <<68472, 68497>>, <<68521, 68527>>, <<68608, 68680>>,
        <<68736, 68786>>, <<68800, 68850>>, <<68858, 68899>>,
        <<68912, 68921>>, <<69216, 69246>>, <<69248, 69289>>,
        <<69296, 69297>>, <<69376, 69415>>, <<69424, 69445>>,
        <<69457, 69460>>, <<69488, 69505>>, <<69552, 69579>>,
        <<69600, 69622>>, <<69635, 69687>>, <<69714, 69743>>,
        <<69745, 69746>>, <<69749, 69749>>, <<69763, 69807>>,
        <<69840, 69864>>, <<69872, 69881>>, <<69891, 69926>>,
        <<69942, 69951>>, <<69956, 69956>>, <<69959, 69959>>,
        <<69968, 70002>>, <<70006, 70006>>, <<70019, 70066>>,
        <<70081, 70084>>, <<70096, 70106>>, <<70108, 70108>>,
        <<70113, 70132>>, <<70144, 70161>>, <<70163, 70187>>,
        <<70272, 70278>>, <<70280, 70280>>, <<70282, 70285>>,
        <<70287, 70301>>, <<70303, 70312>>, <<70320, 70366>>,
        <<70384, 70393>>, <<70405, 70412>>, <<70415, 70416>>,
        <<70419, 70440>>, <<70442, 70448>>, <<70450, 70451>>,
        <<70453, 70457>>, <<70461, 70461>>, <<70480, 70480>>,
        <<70493, 70497>>, <<70656, 70708>>, <<70727, 70730>>,
        <<70736, 70745>>, <<70751, 70753>>, <<70784, 70831>>,
        <<70852, 70853>>, <<70855, 70855>>, <<70864, 70873>>,
        <<71040, 71086>>, <<71128, 71131>>, <<71168, 71215>>,
        <<71236, 71236>>, <<71248, 71257>>, <<71296, 71338>>,
        <<71352, 71352>>, <<71360, 71369>>, <<71424, 71450>>,
        <<71472, 71483>>, <<71488, 71494>>, <<71680, 71723>>,
        <<71840, 71922>>, <<71935, 71942>>, <<71945, 71945>>,
        <<71948, 71955>>, <<71957, 71958>>, <<71960, 71983>>,
        <<71999, 71999>>, <<72001, 72001>>, <<72016, 72025>>,
        <<72096, 72103>>, <<72106, 72144>>, <<72161, 72161>>,
        <<72163, 72163>>, <<72192, 72192>>, <<72203, 72242>>,
        <<72250, 72250>>, <<72272, 72272>>, <<72284, 72329>>,
        <<72349, 72349>>, <<72368, 72440>>, <<72704, 72712>>,
        <<72714, 72750>>, <<72768, 72768>>, <<72784, 72812>>,
        <<72818, 72847>>, <<72960, 72966>>, <<72968, 72969>>,
        <<72971, 73008>>, <<73030, 73030>>, <<73040, 73049>>,
        <<73056, 73061>>, <<73063, 73064>>, <<73066, 73097>>,
        <<73112, 73112>>, <<73120, 73129>>, <<73440, 73458>>,
        <<73648, 73648>>, <<73664, 73684>>, <<73728, 74649>>,
        <<74752, 74862>>, <<74880, 75075>>, <<77712, 77808>>,
        <<77824, 78894>>, <<82944, 83526>>, <<92160, 92728>>,
        <<92736, 92766>>, <<92768, 92777>>, <<92784, 92862>>,
        <<92864, 92873>>, <<92880, 92909>>, <<92928, 92975>>,
        <<92992, 92995>>, <<93008, 93017>>, <<93019, 93025>>,
        <<93027, 93047>>, <<93053, 93071>>, <<93760, 93846>>,
        <<93952, 94026>>, <<94032, 94032>>, <<94099, 94111>>,
        <<94176, 94177>>, <<94179, 94179>>, <<94208, 100343>>,
        <<100352, 101589>>, <<101632, 101640>>, <<110576, 110579>>,
        <<110581, 110587>>, <<110589, 110590>>, <<110592, 110882>>,
        <<110928, 110930>>, <<110948, 110951>>, <<110960, 111355>>,
        <<113664, 113770>>, <<113776, 113788>>, <<113792, 113800>>,
        <<113808, 113817>>, <<119520, 119539>>, <<119648, 119672>>,
        <<119808, 119892>>, <<119894, 119964>>, <<119966, 119967>>,
        <<119970, 119970>>, <<119973, 119974>>, <<119977, 119980>>,
        <<119982, 119993>>, <<119995, 119995>>, <<119997, 120003>>,
        <<120005, 120069>>, <<120071, 120074>>, <<120077, 120084>>,
        <<120086, 120092>>, <<120094, 120121>>, <<120123, 120126>>,
        <<120128, 120132>>, <<120134, 120134>>, <<120138, 120144>>,
        <<120146, 120485>>, <<120488, 120512>>, <<120514, 120538>>,
        <<120540, 120570>>, <<120572, 120596>>, <<120598, 120628>>,
        <<120630, 120654>>, <<120656, 120686>>, <<120688, 120712>>,
        <<120714, 120744>>, <<120746, 120770>>, <<120772, 120779>>,
        <<120782, 120831>>, <<122624, 122654>>, <<123136, 123180>>,
        <<123191, 123197>>, <<123200, 123209>>, <<123214, 123214>>,
        <<123536, 123565>>, <<123584, 123627>>, <<123632, 123641>>,
        <<124896, 124902>>, <<124904, 124907>>, <<124909, 124910>>,
        <<124912, 124926>>, <<124928, 125124>>, <<125127, 125135>>,
        <<125184, 125251>>, <<125259, 125259>>, <<125264, 125273>>,
        <<126065, 126123>>, <<126125, 126127>>, <<126129, 126132>>,
        <<126209, 126253>>, <<126255, 126269>>, <<126464, 126467>>,
        <<126469, 126495>>, <<126497, 126498>>, <<126500, 126500>>,
        <<126503, 126503>>, <<126505, 126514>>, <<126516, 126519>>,
        <<126521, 126521>>, <<126523, 126523>>, <<126530, 126530>>,
        <<126535, 126535>>, <<126537, 126537>>, <<126539, 126539>>,
        <<126541, 126543>>, <<126545, 126546>>, <<126548, 126548>>,
        <<126551, 126551>>, <<126553, 126553>>, <<126555, 126555>>,
        <<126557, 126557>>, <<126559, 126559>>, <<126561, 126562>>,
        <<126564, 126564>>, <<126567, 126570>>, <<126572, 126578>>,
        <<126580, 126583>>, <<126585, 126588>>, <<126590, 126590>>,
        <<126592, 126601>>, <<126603, 126619>>, <<126625, 126627>>,
        <<126629, 126633>>, <<126635, 126651>>, <<127232, 127244>>,
        <<130032, 130041>>, <<131072, 173791>>, <<173824, 177976>>,
        <<177984, 178205>>, <<178208, 183969>>, <<183984, 191456>>,
        <<194560, 195101>>, <<196608, 201546>> } }

PathChar == WordChar \cup {Ord("/"), Ord("-"), Ord(".")}      \* [\w/\-\.]
WinPathChar == WordChar \cup {Ord("\\"), Ord("-"), Ord(".")}  \* [\w\\\-\.]
HexChar == Digit \cup (Ord("a")..Ord("f")) \cup (Ord("A")..Ord("F"))

\* Length of the longest run of characters of class C that starts at s[i].
RECURSIVE RunLen(_, _, _)
RunLen(s, i, C) ==
    IF i > Len(s) \/ s[i] \notin C THEN 0 ELSE 1 + RunLen(s, i + 1, C)

\* s has the literal lit at position i.
HasAt(s, i, lit) ==
    /\ i + Len(lit) - 1 <= Len(s)
    /\ \A k \in 1..Len(lit) : s[i + k - 1] = lit[k]

\* Length of the match of pattern p that starts at s[i], 0 if there is none.
\*   "path"    (/[\w/\-\.]+)
\*   "winpath" ([A-Z]:\\[\w\\\-\.]+)
\*   "line"    line \d+
\*   "addr"    0x[0-9a-fA-F]+
MatchLen(p, s, i) ==
    CASE p = "path" ->
           IF s[i] = Ord("/") /\ RunLen(s, i + 1, PathChar) >= 1
           THEN 1 + RunLen(s, i + 1, PathChar) ELSE 0
      [] p = "winpath" ->
           IF /\ s[i] \in Upper
              /\ HasAt(s, i + 1, Str(<<":", "\\">>))
              /\ RunLen(s, i + 3, WinPathChar) >= 1
           THEN 3 + RunLen(s, i + 3, WinPathChar) ELSE 0
      [] p = "line" ->
           IF HasAt(s, i, Str(<<"l","i","n","e"," ">>)) /\ RunLen(s, i + 5, DecimalDigit) >= 1
           THEN 5 + RunLen(s, i + 5, DecimalDigit) ELSE 0
      [] p = "addr" ->
           IF HasAt(s, i, Str(<<"0","x">>)) /\ RunLen(s, i + 2, HexChar) >= 1
           THEN 2 + RunLen(s, i + 2, HexChar) ELSE 0

Replacement(p) ==
    CASE p = "path"    -> Str(<<"[","P","A","T","H","]">>)
      [] p = "winpath" -> Str(<<"[","P","A","T","H","]">>)
      [] p = "line"    -> Str(<<"l","i","n","e"," ","[","N","]">>)
      [] p = "addr"    -> Str(<<"0","x","[","A","D","D","R","]">>)

\* re.sub(pattern, replacement, s): leftmost non-overlapping matches from s[i] on.
RECURSIVE ReSubFrom(_, _, _)
ReSubFrom(p, s, i) ==
    IF i > Len(s) THEN <<>>
    ELSE LET n == MatchLen(p, s, i) IN
         IF n > 0
         THEN Replacement(p) \o ReSubFrom(p, s, i + n)
         ELSE <<s[i]>> \o ReSubFrom(p, s, i + 1)

ReSub(p, s) == ReSubFrom(p, s, 1)

Ellipsis == Str(<<".", ".", ".">>)

\* truncate_string(text, max_length, suffix="..."); in the slice text[:n] a
\* negative bound n counts from the end of the text
truncate_string(text, max_length) ==
    LET n    == max_length - Len(Ellipsis)
        stop == IF n >= 0 THEN n ELSE Len(text) + n
        last == IF stop < 0 THEN 0 ELSE IF stop > Len(text) THEN Len(text) ELSE stop
    IN  IF Len(text) <= max_length
        THEN text
        ELSE SubSeq(text, 1, last) \o Ellipsis

SANITIZE_MAX_LENGTH == 200

\* An exception is [type |-> name of its class, msg |-> str(e)].
\* sanitize_error_message(error, include_type)
sanitize_error_message(error, include_type) ==
    LET m1 == ReSub("path", error.msg)
        m2 == ReSub("winpath", m1)
        m3 == ReSub("line", m2)
        m4 == ReSub("addr", m3)
        m5 == truncate_string(m4, SANITIZE_MAX_LENGTH)
    IN  IF include_type THEN error.type \o Str(<<":", " ">>) \o m5 ELSE m5

----------------------------------------------------------------------------
(* The job store: database.py                                              *)
(* Each operator is the committed effect of one method on the table; the   *)
(* `now` is CURRENT_TIMESTAMP at the statement.                            *)

\* The table video_jobs is created outside the job store's code. Its column
\* defaults: a new record has its creation time, no start, no completion, no
\* result, no error and no webhook delivery recorded.
ColumnDefaults(now) ==
    [ created_at              |-> now,
      started_at              |-> Null,
      completed_at            |-> Null,
      video_url               |-> Null,
      video_object_name       |-> Null,
      generation_time_seconds |-> Null,
      error_message           |-> Null,
      webhook_delivered       |-> FALSE,
      webhook_attempts        |-> 0,
      last_webhook_attempt    |-> Null ]

\* Its key: the job ID is unique, an INSERT of an ID the table holds fails.
UniqueKeyViolated(tbl, job_id) == job_id \in DOMAIN tbl

\* INSERT INTO video_jobs (job_id, api_key_hash, status, ..., webhook_url)
\* VALUES (:job_id, :api_key_hash, 'queued', ..., :webhook_url): the columns
\* the statement does not name take their defaults.
NewJobRow(api_key_hash, webhook_url, now) ==
    [ api_key_hash |-> api_key_hash,
      status       |-> "queued",
      webhook_url  |-> webhook_url ] @@ ColumnDefaults(now)

\* Variant: an INSERT that never conflicts (the row is replaced).
create_job_raises_Never(tbl, job_id) == FALSE

\* create_job has no test of its own: it raises DatabaseError, after a
\* rollback, when the INSERT raises.
create_job_raises(tbl, job_id) == UniqueKeyViolated(tbl, job_id)

create_job(tbl, job_id, api_key_hash, webhook_url, now) ==
    IF create_job_raises(tbl, job_id)
    THEN tbl
    ELSE [ j \in DOMAIN tbl \cup {job_id} |->
             IF j = job_id THEN NewJobRow(api_key_hash, webhook_url, now) ELSE tbl[j] ]

\* cursor.rowcount > 0 of an UPDATE ... WHERE job_id = :job_id
RowCountPositive(tbl, job_id) == job_id \in DOMAIN tbl

\* update_job_status: UPDATE video_jobs SET status [, started_at]
update_job_status(tbl, job_id, status, started_at) ==
    IF job_id \notin DOMAIN tbl
    THEN tbl
    ELSE IF ~IsNull(started_at)
         THEN [tbl EXCEPT ![job_id].status = status,
                          ![job_id].started_at = started_at]
         ELSE [tbl EXCEPT ![job_id].status = status]

\* Variant: completing a job also stamps last_webhook_attempt
complete_job_Stamping(tbl, job_id, video_url, object_name, generation_time, now) ==
    IF job_id \notin DOMAIN tbl
    THEN tbl
    ELSE [tbl EXCEPT ![job_id].status = "completed",
                     ![job_id].completed_at = Some(now),
                     ![job_id].video_url = Some(video_url),
                     ![job_id].video_object_name = Some(object_name),
                     ![job_id].generation_time_seconds = Some(generation_time),
                     ![job_id].last_webhook_attempt = Some(now)]

\* complete_job: UPDATE video_jobs SET status = 'completed', completed_at =
\* CURRENT_TIMESTAMP, video_url, video_object_name, generation_time_seconds
complete_job(tbl, job_id, video_url, object_name, generation_time, now) ==
    IF job_id \notin DOMAIN tbl
    THEN tbl
    ELSE [tbl EXCEPT ![job_id].status = "completed",
                     ![job_id].completed_at = Some(now),
                     ![job_id].video_url = Some(video_url),
                     ![job_id].video_object_name = Some(object_name),
                     ![job_id].generation_time_seconds = Some(generation_time)]

\* fail_job: error_message[:4000], then UPDATE video_jobs SET status =
\* 'failed', completed_at = CURRENT_TIMESTAMP, error_message
fail_job(tbl, job_id, error_message, now) ==
    IF job_id \notin DOMAIN tbl
    THEN tbl
    ELSE [tbl EXCEPT ![job_id].status = "failed",
                     ![job_id].completed_at = Some(now),
                     ![job_id].error_message =
                         Some(Take(error_message, ERROR_MESSAGE_MAX))]

\* Variant: a delivered webhook also stamps completed_at
update_webhook_delivered_Stamping(tbl, job_id, delivered, attempts, now) ==
    IF job_id \notin DOMAIN tbl
    THEN tbl
    ELSE [tbl EXCEPT ![job_id].webhook_delivered = delivered,
                     ![job_id].webhook_attempts = attempts,
                     ![job_id].last_webhook_attempt = Some(now),
                     ![job_id].completed_at = Some(now)]

\* update_webhook_delivered: UPDATE video_jobs SET webhook_delivered,
\* webhook_attempts, last_webhook_attempt = CURRENT_TIMESTAMP
update_webhook_delivered(tbl, job_id, delivered, attempts, now) ==
    IF job_id \notin DOMAIN tbl
    THEN tbl
    ELSE [tbl EXCEPT ![job_id].webhook_delivered = delivered,
                     ![job_id].webhook_attempts = attempts,
                     ![job_id].last_webhook_attempt = Some(now)]

\* get_job: the dictionary made of the selected columns of the row (the
\* SELECT does not list last_webhook_attempt), or None
get_job(tbl, job_id) ==
    IF job_id \in DOMAIN tbl
    THEN Some([ job_id                  |-> job_id,
                api_key_hash            |-> tbl[job_id].api_key_hash,
                status                  |-> tbl[job_id].status,
                created_at              |-> tbl[job_id].created_at,
                started_at              |-> tbl[job_id].started_at,
                completed_at            |-> tbl[job_id].completed_at,
                video_url               |-> tbl[job_id].video_url,
                video_object_name       |-> tbl[job_id].video_object_name,
                generation_time_seconds |-> tbl[job_id].generation_time_seconds,
                error_message           |-> tbl[job_id].error_message,
                webhook_url             |-> tbl[job_id].webhook_url,
                webhook_delivered       |-> tbl[job_id].webhook_delivered,
                webhook_attempts        |-> tbl[job_id].webhook_attempts ])
    ELSE Null

----------------------------------------------------------------------------
(* Specification SpecStore: any sequence of job-store calls *)

EmptyTable == [j \in {} |-> 0]

\* The in-memory rate limiter is not used
LimIdle ==
    /\ requests = EmptyTable
    /\ admitted = EmptyTable
    /\ lastCall = Null

\* The persistent rate-limit backend is not used
RlIdle ==
    /\ rate_limit_log = <<>>
    /\ api_keys = EmptyTable
    /\ req = EmptyTable

\* No validator, authenticator or signer call is being examined
FnIdle ==
    /\ fnIn = Null
    /\ fnOut = Null

\* process_job is not running
ProcIdle ==
    /\ pc = "idle"
    /\ exc = Null
    /\ localFile = FALSE
    /\ generated = FALSE
    /\ ret = Null
    /\ whSite = "none"
    /\ attempt = 0
    /\ payload = Null
    /\ posts = <<>>
    /\ sleeps = <<>>
    /\ sites = <<>>
    /\ whResult = Null
    /\ dbFault = FALSE
    /\ completeOk = FALSE
    /\ trace = <<>>

InitStore ==
    /\ jobs = EmptyTable
    /\ clock = 0
    /\ calls = 0
    /\ ProcIdle
    /\ FnIdle
    /\ LimIdle
    /\ RlIdle

\* The database clock advances between statements.
Tick ==
    /\ clock < MaxClock
    /\ clock' = clock + 1
    /\ UNCHANGED <<jobs, calls, procVars, fnVars, limVars, rlVars>>

CallCreateJob ==
    /\ calls < MaxCalls
    /\ \E id \in JobIds, k \in KeyHashes, w \in {Null, Some("hook")} :
          jobs' = create_job(jobs, id, k, w, clock)
    /\ calls' = calls + 1
    /\ UNCHANGED <<clock, procVars, fnVars, limVars, rlVars>>

CallUpdateJobStatus ==
    /\ calls < MaxCalls
    /\ \E id \in JobIds, s \in Statuses, st \in {Null, Some(clock)} :
          jobs' = update_job_status(jobs, id, s, st)
    /\ calls' = calls + 1
    /\ UNCHANGED <<clock, procVars, fnVars, limVars, rlVars>>

CallCompleteJob ==
    /\ calls < MaxCalls
    /\ \E id \in JobIds, r \in Results :
          jobs' = complete_job(jobs, id, r[1], r[2], r[3], clock)
    /\ calls' = calls + 1
    /\ UNCHANGED <<clock, procVars, fnVars, limVars, rlVars>>

CallFailJob ==
    /\ calls < MaxCalls
    /\ \E id \in JobIds, m \in {MsgPlain, MsgPath} :
          jobs' = fail_job(jobs, id, m, clock)
    /\ calls' = calls + 1
    /\ UNCHANGED <<clock, procVars, fnVars, limVars, rlVars>>

CallUpdateWebhookDelivered ==
    /\ calls < MaxCalls
    /\ \E id \in JobIds, d \in BOOLEAN, a \in 1..2 :
          jobs' = update_webhook_delivered(jobs, id, d, a, clock)
    /\ calls' = calls + 1
    /\ UNCHANGED <<clock, procVars, fnVars, limVars, rlVars>>

NextStore ==
    \/ Tick
    \/ CallCreateJob
    \/ CallUpdateJobStatus
    \/ CallCompleteJob
    \/ CallFailJob
    \/ CallUpdateWebhookDelivered

SpecStore == InitStore /\ [][NextStore]_vars

----------------------------------------------------------------------------
(* The webhook dispatcher: webhooks.py *)

\* 200 <= response.status_code < 300
IsSuccessStatus(code) == 200 <= code /\ code < 300

\* backoff = (2 ** attempt) * 2.5, a float of seconds: as the number of half
\* seconds, 5 (2.5 s) for attempt 0, 10 (5 s) for attempt 1, 20 (10 s) for
\* attempt 2
Backoff(n) == 2^n * 5

\* if attempt < self.max_retries
ShouldRetry(n) == n < WEBHOOK_MAX_RETRIES

\* Variant: every payload carries the result and the error columns
BuildPayload_Flat(job_id, job) ==
    [ job_id                  |-> job_id,
      status                  |-> job.status,
      created_at              |-> job.created_at,
      completed_at            |-> job.completed_at,
      video_url               |-> job.video_url,
      generation_time_seconds |-> job.generation_time_seconds,
      error_message           |-> job.error_message ]

\* send_completion_webhook: the payload built from the row get_job returned
BuildPayload(job_id, job) ==
    LET base == [ job_id |-> job_id,
                  status |-> job.status,
                  created_at |-> job.created_at,
                  completed_at |-> job.completed_at ]
    IN  IF job.status = "completed"
        THEN [ f \in DOMAIN base \cup {"video_url", "generation_time_seconds"} |->
                 IF f = "video_url" THEN job.video_url
                 ELSE IF f = "generation_time_seconds" THEN job.generation_time_seconds
                 ELSE base[f] ]
        ELSE IF job.status = "failed"
        THEN [ f \in DOMAIN base \cup {"error_message"} |->
                 IF f = "error_message" THEN job.error_message ELSE base[f] ]
        ELSE base

\* What one client.post can end in: a response with a status code, a
\* httpx.TimeoutException, or another httpx.RequestError.
PostOutcomes ==
    { [kind |-> "response", code |-> 200],
      [kind |-> "response", code |-> 500],
      [kind |-> "timeout", code |-> 0],
      [kind |-> "request_error", code |-> 0] }

----------------------------------------------------------------------------
(* The orchestrator: handler.process_job, for the job JobId *)

JobId == "j1"

\* What upload_video returned and the generation time measured
Uploaded == [signed_url |-> "url1", object_name |-> "obj1", generation_time |-> 7]

\* A dict value as Python's truth test sees it: absent, None and '' are false
Truthy(v) == ~IsNull(v) /\ Val(v) # ""

\* An input dict without any of the required fields
EmptyInput ==
    [job_id |-> Null, image_url |-> Null, prompt |-> Null, webhook_url |-> Null]

\* job_input = event.get('input', {})
job_input(event) == IF event.has_input THEN event.input ELSE EmptyInput

\* The input dicts process_job is called with: the required fields are
\* there, the webhook URL is missing, empty or given
JobInputs ==
    { [job_id |-> Some(JobId), image_url |-> Some("https://example.com/a.jpg"),
       prompt |-> Some("zoom in"), webhook_url |-> w] :
        w \in {Null, Some(""), Some("hook")} }

\* webhook_url = job_input.get('webhook_url')
InputWebhookUrl == job_input(Val(fnIn)).webhook_url

\* settings.WEBHOOK_SECRET as WebhookDelivery.__init__ read it: part of the
\* environment the dispatcher runs in
WEBHOOK_SECRET == Val(fnIn).secret

\* The secrets the dispatcher is configured with: one that has a UTF-8
\* encoding and one that has none (a lone surrogate)
WebhookSecrets == { <<107>>, <<56448>> }

\* process_job(job_input) is called for the stored job JobId; the row was
\* created with or without a webhook URL, whatever the input carries
InitJob ==
    /\ \E w \in {Null, Some("hook")} :
          jobs = (JobId :> NewJobRow("k1", w, 0))
    /\ \E inp \in JobInputs : \E sec \in WebhookSecrets :
          fnIn = Some([has_input |-> TRUE, input |-> inp, secret |-> sec])
    /\ fnOut = Null
    /\ clock = 0
    /\ calls = 0
    /\ pc = "validate"
    /\ exc = Null
    /\ localFile = FALSE
    /\ generated = FALSE
    /\ ret = Null
    /\ whSite = "none"
    /\ attempt = 0
    /\ payload = Null
    /\ posts = <<>>
    /\ sleeps = <<>>
    /\ sites = <<>>
    /\ whResult = Null
    /\ dbFault = FALSE
    /\ completeOk = FALSE
    /\ trace = <<>>
    /\ LimIdle
    /\ RlIdle

\* An exception reaches "except Exception as e" of process_job.
Raise(e) ==
    /\ pc' = "except"
    /\ exc' = Some(e)

\* Variant: the rejection is noted but the run goes on to the next step
Validate_Unchecked ==
    /\ pc = "validate"
    /\ pc' = "mark"
    /\ \E t \in {"validated", "validation_rejected"} : trace' = Append(trace, t)
    /\ UNCHANGED <<storeVars, exc, localFile, generated, ret, whSite, attempt,
                   payload, posts, sleeps, sites, whResult, dbFault, completeOk>>
    /\ UNCHANGED <<limVars, rlVars, fnVars>>

\* [1/5] validate_generation_params
Validate ==
    /\ pc = "validate"
    /\ \/ /\ pc' = "mark"
          /\ trace' = Append(trace, "validated")
          /\ UNCHANGED exc
       \/ /\ Raise(ExcValidation)
          /\ trace' = Append(trace, "validation_rejected")
    /\ UNCHANGED <<storeVars, localFile, generated, ret, whSite, attempt,
                   payload, posts, sleeps, sites, whResult, dbFault, completeOk>>
    /\ UNCHANGED <<limVars, rlVars, fnVars>>

\* [2/5] db.update_job_status(job_id, 'processing', started_at=utcnow())
MarkProcessing ==
    /\ pc = "mark"
    /\ \/ /\ jobs' = update_job_status(jobs, JobId, "processing", Some(clock))
          /\ pc' = "generate"
          /\ trace' = Append(trace, "marked_processing")
          /\ UNCHANGED <<exc, dbFault>>
       \/ /\ Raise(ExcDatabase)
          /\ dbFault' = TRUE
          /\ trace' = Append(trace, "mark_raised")
          /\ UNCHANGED jobs
    /\ UNCHANGED <<clock, calls, localFile, generated, ret, whSite, attempt,
                   payload, posts, sleeps, sites, whResult, completeOk>>
    /\ UNCHANGED <<limVars, rlVars, fnVars>>

\* [3/5] generate_video: returns the path of the file it wrote, or raises
Generate ==
    /\ pc = "generate"
    /\ \/ /\ pc' = "upload"
          /\ localFile' = TRUE
          /\ generated' = TRUE
          /\ trace' = trace \o <<"generate_video", "generate_returned">>
          /\ UNCHANGED exc
       \/ /\ Raise(ExcGenerate)
          /\ trace' = Append(trace, "generate_video")
          /\ UNCHANGED <<localFile, generated>>
    /\ UNCHANGED <<storeVars, ret, whSite, attempt, payload, posts, sleeps,
                   sites, whResult, dbFault, completeOk>>
    /\ UNCHANGED <<limVars, rlVars, fnVars>>

\* [4/5] storage.upload_video
Upload ==
    /\ pc = "upload"
    /\ \/ /\ pc' = "complete"
          /\ trace' = trace \o <<"upload_video", "upload_returned">>
          /\ UNCHANGED exc
       \/ /\ Raise(ExcStorage)
          /\ trace' = Append(trace, "upload_video")
    /\ UNCHANGED <<storeVars, localFile, generated, ret, whSite, attempt,
                   payload, posts, sleeps, sites, whResult, dbFault, completeOk>>
    /\ UNCHANGED <<limVars, rlVars, fnVars>>

\* [5/5] db.complete_job
Complete ==
    /\ pc = "complete"
    /\ \/ /\ jobs' = complete_job(jobs, JobId, Uploaded.signed_url, Uploaded.object_name,
                                   Uploaded.generation_time, clock)
          /\ completeOk' = TRUE
          /\ pc' = "cleanup"
          /\ UNCHANGED <<exc, dbFault>>
       \/ /\ Raise(ExcDatabase)
          /\ dbFault' = TRUE
          /\ UNCHANGED <<jobs, completeOk>>
    /\ UNCHANGED <<clock, calls, localFile, generated, ret, whSite, attempt,
                   payload, posts, sleeps, sites, whResult, trace>>
    /\ UNCHANGED <<limVars, rlVars, fnVars>>

\* if webhook_url: await webhook_delivery.send_completion_webhook(job_id)
EnterWebhook(site) ==
    /\ pc' = "wh_get"
    /\ whSite' = site
    /\ sites' = Append(sites, site)

\* if os.path.exists(video_path): os.remove(video_path); then the test of
\* webhook_url that follows it
Cleanup ==
    /\ pc = "cleanup"
    /\ \/ /\ localFile' = FALSE
          /\ IF Truthy(InputWebhookUrl)
             THEN EnterWebhook("success")
             ELSE /\ pc' = "return_completed"
                  /\ UNCHANGED <<whSite, sites>>
          /\ UNCHANGED exc
       \/ /\ Raise(ExcRemove)
          /\ UNCHANGED <<localFile, whSite, sites>>
    /\ UNCHANGED <<storeVars, generated, ret, attempt, payload, posts, sleeps,
                   whResult, dbFault, completeOk, trace>>
    /\ UNCHANGED <<limVars, rlVars, fnVars>>

\* The dispatcher returned `result` to its call site: one of the two sites
\* of process_job, or the caller of send_custom_webhook or deliver_webhook.
WebhookReturns(result) ==
    IF whSite = "success"
    THEN /\ pc' = "return_completed"
         /\ whResult' = Some(result)
         /\ UNCHANGED exc
    ELSE IF whSite = "failure"
    THEN /\ pc' = "return_failed"
         /\ UNCHANGED <<whResult, exc>>
    ELSE /\ pc' = "done"
         /\ whResult' = Some(result)
         /\ UNCHANGED exc

\* The dispatcher raised e: at the success site the exception reaches
\* "except Exception as e"; at the failure site it is caught by "except
\* Exception as webhook_error"; out of send_custom_webhook or of a direct
\* call it reaches the caller.
WebhookRaises(e) ==
    IF whSite = "success"
    THEN /\ Raise(e)
         /\ UNCHANGED whResult
    ELSE IF whSite = "failure"
    THEN /\ pc' = "return_failed"
         /\ UNCHANGED <<whResult, exc>>
    ELSE /\ pc' = "done"
         /\ exc' = Some(e)
         /\ UNCHANGED whResult

\* send_completion_webhook up to the call of deliver_webhook
SendCompletionWebhook ==
    /\ pc = "wh_get"
    /\ \/ \* get_job raises
          /\ WebhookRaises(ExcDatabase)
          /\ dbFault' = TRUE
          /\ UNCHANGED <<attempt, payload>>
       \/ \* get_job returns
          /\ LET job == get_job(jobs, JobId) IN
             IF IsNull(job)
             THEN /\ WebhookReturns(FALSE)
                  /\ UNCHANGED <<attempt, payload>>
             ELSE IF IsNull(Val(job).webhook_url)
             THEN /\ WebhookReturns(TRUE)
                  /\ UNCHANGED <<attempt, payload>>
             ELSE /\ payload' = Some(BuildPayload(JobId, Val(job)))
                  /\ attempt' = 1
                  /\ pc' = "wh_attempt"
                  /\ UNCHANGED <<whResult, exc>>
          /\ UNCHANGED dbFault
    /\ UNCHANGED <<storeVars, localFile, generated, ret, whSite, posts, sleeps,
                   sites, completeOk, trace>>
    /\ UNCHANGED <<limVars, rlVars, fnVars>>

\* A POST that was sent and has not been answered yet
InFlight == [kind |-> "in_flight", code |-> 0]

\* After a failed attempt: update_webhook_delivered(False, attempt), then
\* "await asyncio.sleep(backoff)" before the next attempt, or return False.
\* `fault` tells that the attempt failed on a DatabaseError.
AfterFailedAttempt(fault) ==
    \/ /\ jobs' = update_webhook_delivered(jobs, JobId, FALSE, attempt, clock)
       /\ dbFault' = (dbFault \/ fault)
       /\ IF ShouldRetry(attempt)
          THEN /\ sleeps' = Append(sleeps, Backoff(attempt))
               /\ pc' = "wh_sleep"
               /\ UNCHANGED <<whResult, exc>>
          ELSE /\ WebhookReturns(FALSE)
               /\ UNCHANGED sleeps
    \/ /\ WebhookRaises(ExcDatabase)
       /\ dbFault' = TRUE
       /\ UNCHANGED <<jobs, sleeps>>

\* signature = self._generate_signature(payload) raises: self.secret.encode()
\* has no result for a secret that holds a lone surrogate
SignatureRaises(secret) == encode(secret).kind = "raise"

\* deliver_webhook(webhook_url, payload, job_id, attempt) up to "await
\* client.post": the POST is sent, nothing is recorded yet; or building the
\* request raises inside the try, "except Exception" catches it and the
\* attempt has failed without a POST
DeliverWebhook ==
    /\ pc = "wh_attempt"
    /\ IF attempt > WEBHOOK_MAX_RETRIES
       THEN /\ WebhookReturns(FALSE)
            /\ UNCHANGED <<jobs, posts, sleeps, dbFault>>
       ELSE IF SignatureRaises(WEBHOOK_SECRET)
       THEN /\ AfterFailedAttempt(FALSE)
            /\ UNCHANGED posts
       ELSE /\ posts' = Append(posts, [ outcome |-> InFlight, attempt |-> attempt,
                                        site |-> whSite, at |-> clock,
                                        payload |-> Val(payload) ])
            /\ pc' = "wh_post"
            /\ UNCHANGED <<jobs, sleeps, dbFault, whResult, exc>>
    /\ UNCHANGED <<clock, calls, localFile, generated, ret, whSite, attempt,
                   payload, sites, completeOk, trace>>
    /\ UNCHANGED <<limVars, rlVars, fnVars>>

\* deliver_webhook from the answer to the POST on: the delivery is recorded
\* in the row, then the call returns or goes to sleep
DeliverWebhookAnswer ==
    /\ pc = "wh_post"
    /\ \E o \in PostOutcomes :
         /\ posts' = [posts EXCEPT ![Len(posts)].outcome = o]
         /\ IF o.kind = "response" /\ IsSuccessStatus(o.code)
            THEN \/ /\ jobs' = update_webhook_delivered(jobs, JobId, TRUE, attempt, clock)
                    /\ WebhookReturns(TRUE)
                    /\ UNCHANGED <<sleeps, dbFault>>
                 \/ \* update_webhook_delivered(True, ..) raised inside the
                    \* try: caught by "except Exception"
                    AfterFailedAttempt(TRUE)
            ELSE AfterFailedAttempt(FALSE)
    /\ UNCHANGED <<clock, calls, localFile, generated, ret, whSite, attempt,
                   payload, sites, completeOk, trace>>
    /\ UNCHANGED <<limVars, rlVars, fnVars>>

\* the sleep is over: return await self.deliver_webhook(.., attempt + 1)
DeliverWebhookRetry ==
    /\ pc = "wh_sleep"
    /\ clock' = clock + sleeps[Len(sleeps)]
    /\ attempt' = attempt + 1
    /\ pc' = "wh_attempt"
    /\ UNCHANGED <<jobs, calls, exc, localFile, generated, ret, whSite, payload,
                   posts, sleeps, sites, whResult, dbFault, completeOk, trace>>
    /\ UNCHANGED <<limVars, rlVars, fnVars>>

\* return {"status": "completed", ...}
ReturnCompleted ==
    /\ pc = "return_completed"
    /\ ret' = Some([status |-> "completed", video_url |-> Some(Uploaded.signed_url),
                    error |-> Null])
    /\ pc' = "done"
    /\ UNCHANGED <<storeVars, exc, localFile, generated, whSite, attempt,
                   payload, posts, sleeps, sites, whResult, dbFault, completeOk, trace>>
    /\ UNCHANGED <<limVars, rlVars, fnVars>>

\* The text handed to fail_job: str(e)
FailureText(e) == e.msg

\* except Exception as e: fail_job inside its own try, then the test of
\* webhook_url
Except ==
    /\ pc = "except"
    /\ \/ /\ jobs' = fail_job(jobs, JobId, FailureText(Val(exc)), clock)
          /\ UNCHANGED dbFault
       \/ /\ dbFault' = TRUE
          /\ UNCHANGED jobs
    /\ IF Truthy(InputWebhookUrl)
       THEN EnterWebhook("failure")
       ELSE /\ pc' = "return_failed"
            /\ UNCHANGED <<whSite, sites>>
    /\ UNCHANGED <<clock, calls, exc, localFile, generated, ret, attempt,
                   payload, posts, sleeps, whResult, completeOk, trace>>
    /\ UNCHANGED <<limVars, rlVars, fnVars>>

\* return {"status": "failed", "error": error_message}
ReturnFailed ==
    /\ pc = "return_failed"
    /\ ret' = Some([status |-> "failed", video_url |-> Null,
                    error |-> Some(sanitize_error_message(Val(exc), TRUE))])
    /\ pc' = "done"
    /\ UNCHANGED <<storeVars, exc, localFile, generated, whSite, attempt,
                   payload, posts, sleeps, sites, whResult, dbFault, completeOk, trace>>
    /\ UNCHANGED <<limVars, rlVars, fnVars>>

NextJob ==
    \/ Validate
    \/ MarkProcessing
    \/ Generate
    \/ Upload
    \/ Complete
    \/ Cleanup
    \/ SendCompletionWebhook
    \/ DeliverWebhook
    \/ DeliverWebhookAnswer
    \/ DeliverWebhookRetry
    \/ ReturnCompleted
    \/ Except
    \/ ReturnFailed

SpecJob == InitJob /\ [][NextJob]_vars

----------------------------------------------------------------------------
(* The dispatcher called on its own: WebhookDelivery.send_custom_webhook    *)
(* or deliver_webhook for the job JobId, with a payload and a URL of the    *)
(* caller's choice                                                          *)

\* Payloads a caller hands over; nothing ties them to the stored job
CustomPayloads ==
    { [event |-> "test"],
      [job_id |-> JobId, status |-> "processing"] }

\* The table holds no row for JobId, or a queued one with or without a
\* webhook URL
InitCustom ==
    /\ \/ jobs = EmptyTable
       \/ \E w \in {Null, Some("hook")} :
             jobs = (JobId :> NewJobRow("k1", w, 0))
    /\ clock = 0
    /\ calls = 0
    /\ ProcIdle
    /\ LimIdle
    /\ RlIdle
    /\ \E sec \in WebhookSecrets : fnIn = Some([secret |-> sec])
    /\ fnOut = Null

\* send_custom_webhook(webhook_url, payload, job_id): deliver_webhook with
\* the caller's payload, first attempt
SendCustomWebhook ==
    /\ pc = "idle"
    /\ \E pl \in CustomPayloads : payload' = Some(pl)
    /\ attempt' = 1
    /\ whSite' = "custom"
    /\ sites' = Append(sites, "custom")
    /\ pc' = "wh_attempt"
    /\ UNCHANGED <<storeVars, exc, localFile, generated, ret, posts, sleeps,
                   whResult, dbFault, completeOk, trace>>
    /\ UNCHANGED <<limVars, rlVars, fnVars>>

\* Values of the parameter attempt a caller of deliver_webhook passes: below
\* the default, the default, the last allowed one and the first beyond it
DirectAttempts == 0..(WEBHOOK_MAX_RETRIES + 1) \ {2}

\* deliver_webhook(webhook_url, payload, job_id, attempt) called on its own:
\* the method is public and attempt is a parameter (default 1)
CallDeliverWebhook ==
    /\ pc = "idle"
    /\ \E pl \in CustomPayloads : payload' = Some(pl)
    /\ \E a \in DirectAttempts : attempt' = a
    /\ whSite' = "direct"
    /\ sites' = Append(sites, "direct")
    /\ pc' = "wh_attempt"
    /\ UNCHANGED <<storeVars, exc, localFile, generated, ret, posts, sleeps,
                   whResult, dbFault, completeOk, trace>>
    /\ UNCHANGED <<limVars, rlVars, fnVars>>

NextCustom ==
    \/ SendCustomWebhook
    \/ CallDeliverWebhook
    \/ DeliverWebhook
    \/ DeliverWebhookAnswer
    \/ DeliverWebhookRetry

SpecCustom == InitCustom /\ [][NextCustom]_vars

----------------------------------------------------------------------------
(* Properties of the job store, under SpecStore *)

\* The columns of a row other than the webhook bookkeeping
NonWebhookColumns ==
    { "api_key_hash", "status", "created_at", "started_at", "completed_at",
      "video_url", "video_object_name", "generation_time_seconds",
      "error_message", "webhook_url" }

\* The terminal payload of a row
PayloadColumns ==
    { "video_url", "video_object_name", "generation_time_seconds",
      "error_message", "completed_at" }

\* C1: once the stored status of a job is 'completed' or 'failed', no
\* job-store call changes the status again; only webhook_delivered,
\* webhook_attempts and last_webhook_attempt may change afterwards.
C1_TerminalStatusFrozen ==
    [][ \A id \in DOMAIN jobs :
          jobs[id].status \in Terminal =>
            /\ id \in DOMAIN jobs'
            /\ jobs'[id].status = jobs[id].status
            /\ \A c \in NonWebhookColumns : jobs'[id][c] = jobs[id][c] ]_vars

\* C3: once a job is terminal, a further complete_job or fail_job on it
\* leaves video_url, video_object_name, generation_time_seconds,
\* error_message and completed_at as they were.
C3_TerminalPayloadIdempotent ==
    [][ (CallCompleteJob \/ CallFailJob) =>
          \A id \in DOMAIN jobs :
            jobs[id].status \in Terminal =>
              \A c \in PayloadColumns : jobs'[id][c] = jobs[id][c] ]_vars

----------------------------------------------------------------------------
(* Properties of one run of process_job, under SpecJob *)

Row == jobs[JobId]

\* C2: a 'completed' job has video_url set and error_message unset, a
\* 'failed' job has error_message set and video_url unset, and a 'queued' or
\* 'processing' job has neither, in every state of a run of process_job.
C2_ExactlyOneOutcomeField ==
    /\ Row.status = "completed" =>
          ~IsNull(Row.video_url) /\ IsNull(Row.error_message)
    /\ Row.status = "failed" =>
          ~IsNull(Row.error_message) /\ IsNull(Row.video_url)
    /\ Row.status \in {"queued", "processing"} =>
          IsNull(Row.video_url) /\ IsNull(Row.error_message)

\* C4: once the completion webhook is dispatched (complete_job succeeded),
\* whatever happens during the dispatch the stored status stays 'completed'
\* and process_job returns status 'completed'.
C4_WebhookNeverFatal ==
    (completeOk /\ Len(sites) > 0 /\ sites[1] = "success") =>
        /\ Row.status = "completed"
        /\ ~IsNull(ret) => Val(ret).status = "completed"

Is500(o) == o.kind = "response" /\ o.code = 500

\* The delay between consecutive POSTs i and i+1
Gap(i) == posts[i + 1].at - posts[i].at

C8_FailedBeforeWebhookAndReturn ==
    (~IsNull(exc) /\ pc \in {"wh_get", "wh_attempt", "wh_post", "wh_sleep",
                              "return_failed", "done"}) =>
        Row.status = "failed"

\* C9: the error_message process_job persists for a failed job, and the
\* error_message of every 'failed' webhook payload, is the output of
\* sanitize_error_message for the exception caught.
C9_StoredErrorSanitized ==
    /\ (~IsNull(exc) /\ Row.status = "failed") =>
          Row.error_message = Some(sanitize_error_message(Val(exc), TRUE))
    /\ \A i \in 1..Len(posts) :
          posts[i].payload.status = "failed" =>
             posts[i].payload.error_message =
                 Some(sanitize_error_message(Val(exc), TRUE))

\* C10: when process_job has returned and generate_video had produced a
\* local output file, that file has been removed.
C10_LocalFileRemoved ==
    (pc = "done" /\ generated) => ~localFile

----------------------------------------------------------------------------
(* The in-memory rate limiter: auth.InMemoryRateLimiter *)

WINDOW == 60
LimitN == 2
MaxTime == 125

\* How far the clock moves between two calls
TickSteps == {30, 59, 60}

\* A window that still holds a timestamp exactly 60 seconds old
InWindow_Inclusive(now, ts) == now - ts <= WINDOW

\* (now - ts).total_seconds() < 60
InWindow(now, ts) == now - ts < WINDOW

\* Variant: the list is not pruned
Recent_Unpruned(ts, now) == ts

\* [ts for ts in self._requests[key_hash] if (now - ts).total_seconds() < 60]
Recent(ts, now) == SelectSeq(ts, LAMBDA t : InWindow(now, t))

\* self._requests[key_hash] after "if key_hash not in self._requests"
Stored(reqs, key_hash) ==
    IF key_hash \in DOMAIN reqs THEN reqs[key_hash] ELSE <<>>

\* Variant: one request more than the limit is let through
LimitExceeded_Strict(recent, limit) == Len(recent) > limit

\* len(self._requests[key_hash]) >= limit, on the pruned list
LimitExceeded(recent, limit) == Len(recent) >= limit

\* check_rate_limit: the value returned
check_rate_limit_ret(reqs, key_hash, limit, now) ==
    ~LimitExceeded(Recent(Stored(reqs, key_hash), now), limit)

\* check_rate_limit: self._requests afterwards
check_rate_limit(reqs, key_hash, limit, now) ==
    LET recent == Recent(Stored(reqs, key_hash), now)
        kept   == IF LimitExceeded(recent, limit) THEN recent
                  ELSE Append(recent, now)
    IN  [ k \in DOMAIN reqs \cup {key_hash} |->
            IF k = key_hash THEN kept ELSE reqs[k] ]

InitLimiter ==
    /\ jobs = EmptyTable
    /\ clock = 0
    /\ calls = 0
    /\ ProcIdle
    /\ FnIdle
    /\ RlIdle
    /\ requests = EmptyTable
    /\ admitted = [k \in KeyHashes |-> <<>>]
    /\ lastCall = Null

\* Time passes (datetime.utcnow() grows).
LimTick ==
    /\ \E d \in TickSteps :
          /\ clock + d <= MaxTime
          /\ clock' = clock + d
    /\ UNCHANGED <<jobs, calls, procVars, fnVars, limVars, rlVars>>

\* One call check_rate_limit(key_hash, LimitN)
CheckRateLimit ==
    /\ \E k \in KeyHashes :
          LET r == check_rate_limit_ret(requests, k, LimitN, clock) IN
          /\ requests' = check_rate_limit(requests, k, LimitN, clock)
          /\ admitted' = IF r THEN [admitted EXCEPT ![k] = Append(@, clock)]
                         ELSE admitted
          /\ lastCall' = Some([ key    |-> k,
                                at     |-> clock,
                                result |-> r,
                                prior  |-> admitted[k],
                                before |-> Stored(requests, k) ])
    /\ UNCHANGED <<storeVars, procVars, fnVars, rlVars>>

NextLimiter ==
    \/ LimTick
    \/ CheckRateLimit

SpecLimiter == InitLimiter /\ [][NextLimiter]_vars

\* Number of occurrences of x in the sequence q
Count(q, x) == Cardinality({i \in 1..Len(q) : q[i] = x})

\* C6: with limit N, once N calls for a key have returned True within 60
\* seconds, every call for that key made less than 60 seconds after the
\* oldest of them returns False and records no timestamp; a call made 60
\* seconds or more after the latest admitted call returns True.
C6_WindowFullRejectsThenReopens ==
    ~IsNull(lastCall) =>
      LET c == Val(lastCall)
          A == c.prior
          n == Len(A)
      IN  /\ (\E i \in 1..n :
                 /\ i + LimitN - 1 <= n
                 /\ A[i + LimitN - 1] - A[i] < WINDOW
                 /\ c.at - A[i] < WINDOW) =>
                    /\ c.result = FALSE
                    /\ admitted[c.key] = A
                    /\ \A t \in 0..MaxTime + 1 :
                          Count(requests[c.key], t) <= Count(c.before, t)
          /\ (n > 0 /\ c.at - A[n] >= WINDOW) => c.result = TRUE

\* A call is rejected on a full window and a later call, at least 60 s after
\* the latest admitted one, has been admitted again.
C6_Witness ==
    /\ ~IsNull(lastCall)
    /\ Val(lastCall).result = FALSE
    /\ Len(Val(lastCall).prior) > LimitN
    /\ \E i \in 2..Len(Val(lastCall).prior) :
          Val(lastCall).prior[i] - Val(lastCall).prior[i - 1] >= WINDOW

----------------------------------------------------------------------------
(* The persistent rate-limit backend: database.py *)

RATE_LIMIT_PER_MINUTE == 10
StoredLimit == 2
MaxReqs == 3

\* OracleDatabase.check_rate_limit: <<count, rate_limit>>
db_check_rate_limit(log, keys, key_hash, now) ==
    LET rate_limit ==
            IF key_hash \in DOMAIN keys /\ keys[key_hash].is_active
            THEN keys[key_hash].rate_limit_per_minute
            ELSE RATE_LIMIT_PER_MINUTE
        since == now - WINDOW
        count == Cardinality({ i \in 1..Len(log) :
                                 /\ log[i].key_hash = key_hash
                                 /\ log[i].request_time > since })
    IN  <<count, rate_limit>>

\* OracleDatabase.log_request: the INSERT INTO rate_limit_log
log_request(log, key_hash, now) ==
    Append(log, [key_hash |-> key_hash, request_time |-> now])

\* OracleDatabase.log_request: the UPDATE api_keys
log_request_keys(keys, key_hash, now) ==
    IF key_hash \in DOMAIN keys
    THEN [keys EXCEPT ![key_hash].last_used_at = Some(now),
                      ![key_hash].total_requests = @ + 1]
    ELSE keys

Reqs == 1..MaxReqs

InitRateLog ==
    /\ jobs = EmptyTable
    /\ clock = 0
    /\ calls = 0
    /\ ProcIdle
    /\ FnIdle
    /\ LimIdle
    /\ rate_limit_log = <<>>
    /\ api_keys = ("k1" :> [ rate_limit_per_minute |-> StoredLimit,
                             is_active |-> TRUE,
                             total_requests |-> 0,
                             last_used_at |-> Null ])
    /\ req = [r \in Reqs |-> [pc |-> "start", key |-> "none", count |-> 0,
                              limit |-> 0, at |-> 0]]

RlTick ==
    /\ \E d \in TickSteps :
          /\ clock + d <= MaxTime
          /\ clock' = clock + d
    /\ UNCHANGED <<jobs, calls, procVars, fnVars, limVars, rlVars>>

\* A request for some key runs check_rate_limit.
RlCheck ==
    /\ \E r \in Reqs, k \in KeyHashes :
          /\ req[r].pc = "start"
          /\ LET res == db_check_rate_limit(rate_limit_log, api_keys, k, clock) IN
             req' = [req EXCEPT ![r] = [pc |-> "checked", key |-> k,
                                        count |-> res[1], limit |-> res[2],
                                        at |-> 0]]
    /\ UNCHANGED <<storeVars, procVars, fnVars, limVars, rate_limit_log, api_keys>>

\* The count it got is below the limit: the request is admitted and runs
\* log_request.
RlAdmit ==
    /\ \E r \in Reqs :
          /\ req[r].pc = "checked"
          /\ req[r].count < req[r].limit
          /\ rate_limit_log' = log_request(rate_limit_log, req[r].key, clock)
          /\ api_keys' = log_request_keys(api_keys, req[r].key, clock)
          /\ req' = [req EXCEPT ![r].pc = "admitted", ![r].at = clock]
    /\ UNCHANGED <<storeVars, procVars, fnVars, limVars>>

\* The count it got has reached the limit: the request is rejected.
RlReject ==
    /\ \E r \in Reqs :
          /\ req[r].pc = "checked"
          /\ ~(req[r].count < req[r].limit)
          /\ req' = [req EXCEPT ![r].pc = "rejected"]
    /\ UNCHANGED <<storeVars, procVars, fnVars, limVars, rate_limit_log, api_keys>>

NextRateLog ==
    \/ RlTick
    \/ RlCheck
    \/ RlAdmit
    \/ RlReject

SpecRateLog == InitRateLog /\ [][NextRateLog]_vars

\* The requests for the key of r admitted in the 60 seconds ending with r
AdmittedInWindow(r) ==
    { q \in Reqs : /\ req[q].pc = "admitted"
                   /\ req[q].key = req[r].key
                   /\ req[q].at <= req[r].at
                   /\ req[r].at - req[q].at < WINDOW }

\* C7: with the persistent backend, in no interleaving of concurrent
\* requests for one key are more than `limit` requests admitted within one
\* 60-second window.
C7_NeverOverLimit ==
    \A r \in Reqs :
        req[r].pc = "admitted" =>
            Cardinality(AdmittedInWindow(r)) <= req[r].limit

----------------------------------------------------------------------------
(* Order of the steps of process_job (handler.py)                          *)

Called(step) == \E i \in 1..Len(trace) : trace[i] = step

\* every occurrence of b in the trace has an occurrence of a before it
Precedes(a, b) ==
    \A i \in 1..Len(trace) :
        trace[i] = b => \E j \in 1..(i - 1) : trace[j] = a

\* C11: when validate_generation_params rejects the input, the job is never
\* set to 'processing' and neither generate_video nor upload_video is called;
\* generate_video is called only after validation succeeded and the job was
\* marked 'processing', and upload_video only after generate_video returned.
C11_ValidationGatesPipeline ==
    /\ Called("validation_rejected") =>
          /\ ~Called("marked_processing")
          /\ ~Called("mark_raised")
          /\ ~Called("generate_video")
          /\ ~Called("upload_video")
          /\ Row.status \in {"queued", "failed"}
          /\ Row.started_at = Null
    /\ Precedes("validated", "marked_processing")
    /\ Precedes("marked_processing", "generate_video")
    /\ Precedes("generate_returned", "upload_video")

\* a run whose input was rejected has ended with the job marked 'failed'
C11_Witness ==
    /\ pc = "done"
    /\ Called("validation_rejected")
    /\ Row.status = "failed"

----------------------------------------------------------------------------
(* URL validators (validation.py)                                          *)
(*                                                                         *)
(* A URL is given by what urlparse and the text searches read from it:     *)
(* its length, its scheme, its hostname (Null when urlparse finds none),   *)
(* whether the text contains '@' and whether it contains one of file://,   *)
(* ftp://, gopher://, dict://. None is Null and "" is the URL of length 0. *)
(* An IP address is its version and its octets, most significant first.    *)

\* The job store is not used
StoreIdle ==
    /\ jobs = EmptyTable
    /\ clock = 0
    /\ calls = 0

V4(a, b, c, d) == [v |-> 4, o |-> <<a, b, c, d>>]
V6(first, last) ==
    [v |-> 6, o |-> <<first \div 256, first % 256, 0, 0, 0, 0, 0, 0,
                      0, 0, 0, 0, 0, 0, last \div 256, last % 256>>]
Net(ip, prefixlen) == [v |-> ip.v, o |-> ip.o, prefixlen |-> prefixlen]

Min(a, b) == IF a < b THEN a ELSE b
Max(a, b) == IF a > b THEN a ELSE b

\* `ip in blocked_range`: same version and equal on the first prefixlen bits
InNetwork(ip, net) ==
    /\ ip.v = net.v
    /\ \A i \in 1..Len(net.o) :
          LET bits == Min(8, Max(0, net.prefixlen - 8 * (i - 1)))
              unit == 2 ^ (8 - bits)
          IN  ip.o[i] \div unit = net.o[i] \div unit

\* Variant: the second private block is taken as 172.16.0.0/16
BLOCKED_IP_RANGES_Narrow ==
    << Net(V4(127, 0, 0, 0), 8),
       Net(V4(10, 0, 0, 0), 8),
       Net(V4(172, 16, 0, 0), 16),
       Net(V4(192, 168, 0, 0), 16),
       Net(V4(169, 254, 0, 0), 16),
       Net(V6(0, 1), 128),
       Net(V6(64512, 0), 7),
       Net(V6(65152, 0), 10) >>

BLOCKED_IP_RANGES ==
    << Net(V4(127, 0, 0, 0), 8),
       Net(V4(10, 0, 0, 0), 8),
       Net(V4(172, 16, 0, 0), 12),
       Net(V4(192, 168, 0, 0), 16),
       Net(V4(169, 254, 0, 0), 16),
       Net(V6(0, 1), 128),
       Net(V6(64512, 0), 7),
       Net(V6(65152, 0), 10) >>

\* A string that ipaddress.ip_address cannot parse (ValueError)
NotAnAddress == [v |-> 0, o |-> <<>>]

is_private_ip(ip) ==
    IF ip = NotAnAddress
    THEN FALSE
    ELSE \E i \in 1..Len(BLOCKED_IP_RANGES) : InNetwork(ip, BLOCKED_IP_RANGES[i])


\* What socket.gethostbyname(parsed.hostname) does
Resolved(ip) == [kind |-> "addr", ip |-> ip]
Unresolved(error) == [kind |-> error, ip |-> NotAnAddress]

AllowedSchemes == {"http", "https"}
blocked_hostnames == {"localhost", "0.0.0.0", "metadata.google.internal", "metadata"}

validate_image_url(url, dns) ==
    IF url = Null \/ url.len = 0
    THEN Raised("ValidationError", "required")
    ELSE IF url.len > 2000
    THEN Raised("ValidationError", "too_long")
    ELSE IF ~url.parses
    THEN Raised("ValidationError", "invalid_format")
    ELSE IF url.scheme \notin AllowedSchemes
    THEN Raised("ValidationError", "scheme")
    ELSE IF IsNull(url.hostname)
    THEN Raised("ValidationError", "no_hostname")
    ELSE IF Val(url.hostname) \in blocked_hostnames
    THEN Raised("ValidationError", "blocked_hostname")
    ELSE IF dns.kind = "gaierror"
    THEN Raised("ValidationError", "unresolvable")
    ELSE IF dns.kind # "addr"
    THEN Raised("ValidationError", "error_validating")
    ELSE IF is_private_ip(dns.ip)
    THEN Raised("ValidationError", "error_validating")
    ELSE IF url.embedded \/ url.at
    THEN Raised("ValidationError", "suspicious_pattern")
    ELSE Returned(url)

validate_webhook_url(url, dns) ==
    IF url = Null \/ url.len = 0
    THEN Returned(Null)
    ELSE IF ~url.parses
    THEN Raised("ValidationError", "invalid_format")
    ELSE IF url.scheme \notin AllowedSchemes
    THEN Raised("ValidationError", "scheme")
    ELSE IF dns.kind = "gaierror"
    THEN Raised("ValidationError", "unresolvable")
    ELSE IF dns.kind # "addr"
    THEN Raised(dns.kind, "gethostbyname")
    ELSE IF is_private_ip(dns.ip)
    THEN Raised("ValidationError", "private_ip")
    ELSE Returned(url)

\* Inputs
Addresses ==
    { V4(127, 0, 0, 1), V4(127, 255, 255, 255), V4(126, 255, 255, 255),
      V4(128, 0, 0, 1), V4(10, 0, 0, 5), V4(11, 0, 0, 1),
      V4(172, 15, 255, 255), V4(172, 16, 0, 1), V4(172, 20, 0, 1),
      V4(172, 31, 255, 255), V4(172, 32, 0, 1), V4(192, 168, 1, 1),
      V4(192, 167, 1, 1), V4(192, 169, 0, 1), V4(169, 254, 169, 254),
      V4(169, 253, 0, 1), V4(0, 0, 0, 0), V4(8, 8, 8, 8), V4(93, 184, 216, 34),
      V6(0, 1), V6(0, 2), V6(64512, 1), V6(65023, 1), V6(65024, 1),
      V6(65152, 1), V6(65215, 1), V6(65216, 1), V6(8193, 1) }

Hostnames ==
    { "example.com", "rebind.example.com", "localhost", "0.0.0.0", "metadata",
      "metadata.google.internal", "127.0.0.1", "2130706433", "10.0.0.5", "::1" }

\* What gethostbyname can do for a hostname: a literal address is returned
\* as it is, an IPv6 literal is not resolved, a name resolves to whatever
\* its zone says; without a hostname the argument is None.
Resolutions(hostname) ==
    IF IsNull(hostname) THEN { Unresolved("TypeError") }
    ELSE CASE Val(hostname) \in {"localhost", "127.0.0.1", "2130706433"} ->
                  { Resolved(V4(127, 0, 0, 1)) }
           [] Val(hostname) = "0.0.0.0" -> { Resolved(V4(0, 0, 0, 0)) }
           [] Val(hostname) = "10.0.0.5" -> { Resolved(V4(10, 0, 0, 5)) }
           [] Val(hostname) = "::1" -> { Unresolved("gaierror") }
           [] Val(hostname) \in {"metadata", "metadata.google.internal"} ->
                  { Resolved(V4(169, 254, 169, 254)), Unresolved("gaierror") }
           [] OTHER -> { Resolved(ip) : ip \in Addresses }
                         \cup { Unresolved("gaierror"), Unresolved("UnicodeError") }

\* A URL is what urlparse(url) read of it: scheme and hostname, with the
\* length of the text and whether it holds '@' or the name of another scheme
\* ("file://", ...) somewhere
ParsedUrls ==
    { [len |-> n, parses |-> TRUE, scheme |-> sc, hostname |-> h, at |-> a,
       embedded |-> e] :
        n \in {40, 2001}, sc \in {"http", "https", "ftp", ""},
        h \in {Null} \cup { Some(x) : x \in Hostnames },
        a \in BOOLEAN, e \in BOOLEAN }

\* Texts urlparse raises ValueError on ('http://[::1', 'http://[bad]/', a
\* netloc that changes under NFKC normalization): nothing was read
UnparsedUrls ==
    { [len |-> n, parses |-> FALSE, scheme |-> "", hostname |-> Null, at |-> a,
       embedded |-> FALSE] :
        n \in {40, 2001}, a \in BOOLEAN }

Urls == ParsedUrls \cup UnparsedUrls

EmptyUrl == [len |-> 0, parses |-> TRUE, scheme |-> "", hostname |-> Null,
             at |-> FALSE, embedded |-> FALSE]

InitUrl ==
    /\ StoreIdle
    /\ ProcIdle
    /\ LimIdle
    /\ RlIdle
    /\ \/ \E u \in {Null, EmptyUrl} :
             fnIn = [url |-> u, dns |-> Unresolved("TypeError")]
       \/ \E u \in Urls :
             /\ (u.scheme = "ftp" => u.embedded)
             /\ \E d \in Resolutions(u.hostname) : fnIn = [url |-> u, dns |-> d]
    /\ fnOut = [image |-> Null, webhook |-> Null]

ApplyValidateImageUrl ==
    /\ IsNull(fnOut.image)
    /\ fnOut' = [fnOut EXCEPT !.image = Some(validate_image_url(fnIn.url, fnIn.dns))]
    /\ UNCHANGED <<storeVars, procVars, limVars, rlVars, fnIn>>

ApplyValidateWebhookUrl ==
    /\ IsNull(fnOut.webhook)
    /\ fnOut' = [fnOut EXCEPT !.webhook = Some(validate_webhook_url(fnIn.url, fnIn.dns))]
    /\ UNCHANGED <<storeVars, procVars, limVars, rlVars, fnIn>>

NextUrl == ApplyValidateImageUrl \/ ApplyValidateWebhookUrl

SpecUrl == InitUrl /\ [][NextUrl]_vars

\* The ranges of the claim, octet by octet
InClaimedRange(ip) ==
    \/ /\ ip.v = 4
       /\ \/ ip.o[1] = 127
          \/ ip.o[1] = 10
          \/ ip.o[1] = 172 /\ ip.o[2] \in 16..31
          \/ ip.o[1] = 192 /\ ip.o[2] = 168
          \/ ip.o[1] = 169 /\ ip.o[2] = 254
    \/ /\ ip.v = 6
       /\ \/ ip = V6(0, 1)
          \/ ip.o[1] \in {252, 253}
          \/ ip.o[1] = 254 /\ ip.o[2] \in 128..191

HasHostname == fnIn.url # Null /\ fnIn.url.len > 0 /\ ~IsNull(fnIn.url.hostname)

\* C12: for every URL whose hostname resolves to an address in 127.0.0.0/8,
\* 10.0.0.0/8, 172.16.0.0/12, 192.168.0.0/16, 169.254.0.0/16, ::1, fc00::/7 or
\* fe80::/10, validate_image_url raises ValidationError, whatever the spelling
\* of the hostname; it also raises when the hostname cannot be resolved.
C12_PrivateOrUnresolvedRejected ==
    (/\ HasHostname
     /\ ~IsNull(fnOut.image)
     /\ \/ fnIn.dns.kind = "addr" /\ InClaimedRange(fnIn.dns.ip)
        \/ fnIn.dns.kind = "gaierror")
    => /\ Val(fnOut.image).kind = "raise"
       /\ Val(fnOut.image).error = "ValidationError"

\* a well-formed http(s) URL with an ordinary name that resolves into
\* 172.16.0.0/12 beyond 172.16.0.0/16 has been validated and rejected
C12_Witness ==
    /\ HasHostname
    /\ fnIn.url.len <= 2000
    /\ fnIn.url.scheme \in AllowedSchemes
    /\ fnIn.url.hostname = Some("rebind.example.com")
    /\ ~fnIn.url.at /\ ~fnIn.url.embedded
    /\ fnIn.dns = Resolved(V4(172, 20, 0, 1))
    /\ ~IsNull(fnOut.image)
    /\ Val(fnOut.image).kind = "raise"

\* the reasons of the claim for which validate_image_url rejected the URL
ImageRejectedForSharedReason ==
    /\ fnIn.url # Null
    /\ fnIn.url.len > 0
    /\ ~IsNull(fnOut.image)
    /\ Val(fnOut.image).kind = "raise"
    /\ \/ Val(fnOut.image).why \in {"scheme", "no_hostname", "blocked_hostname",
                                    "suspicious_pattern", "unresolvable"}
       \/ Val(fnOut.image).why = "error_validating" /\ fnIn.dns.kind = "addr"

\* C13: every non-empty URL that validate_image_url rejects because of its
\* scheme, a missing hostname, a denylisted hostname, a forbidden-scheme or
\* embedded-credential pattern, an unresolvable hostname or a private
\* resolved address is rejected by validate_webhook_url as well.
C13_WebhookRejectsWhatImageRejects ==
    (ImageRejectedForSharedReason /\ ~IsNull(fnOut.webhook))
    => Val(fnOut.webhook).kind = "raise"

----------------------------------------------------------------------------
(* Webhook signature (webhooks.py)                                         *)
(*                                                                         *)
(* A payload dict is the sequence of its <<key, value>> items in insertion *)
(* order. The secret is encoded in UTF-8; HMAC-SHA256 pads a key of at     *)
(* most 64 bytes with zero bytes to the block size and replaces a longer   *)
(* key by its SHA-256 digest, which is computed (FIPS 180-4). The HMAC     *)
(* itself is taken to be free of collisions: it is the pair of the key     *)
(* block and the message.                                                  *)

NUL == 0    \* the character chr(0)
HMAC_BLOCK_SIZE == 64

\* A 32-bit word is the pair <<high, low>> of its 16-bit halves.
RECURSIVE Bitwise(_, _, _, _)
Bitwise(op, a, b, n) ==
    IF n = 0 THEN 0
    ELSE LET x == a % 2
             y == b % 2
             z == IF op = "xor" THEN (x + y) % 2 ELSE x * y
         IN  z + 2 * Bitwise(op, a \div 2, b \div 2, n - 1)

\* The two operations on 4-bit digits, tabulated
XorDigit == [x \in 0..15 |-> [y \in 0..15 |-> Bitwise("xor", x, y, 4)]]
AndDigit == [x \in 0..15 |-> [y \in 0..15 |-> Bitwise("and", x, y, 4)]]

\* A table applied to the four 4-bit digits of two 16-bit halves
Digits(T, a, b) ==
    T[a % 16][b % 16]
      + 16 * T[(a \div 16) % 16][(b \div 16) % 16]
      + 256 * T[(a \div 256) % 16][(b \div 256) % 16]
      + 4096 * T[a \div 4096][b \div 4096]

Xor(u, v) == <<Digits(XorDigit, u[1], v[1]), Digits(XorDigit, u[2], v[2])>>
And(u, v) == <<Digits(AndDigit, u[1], v[1]), Digits(AndDigit, u[2], v[2])>>
Not(u) == <<65535 - u[1], 65535 - u[2]>>
Add(u, v) ==
    LET lo == u[2] + v[2]
    IN  <<(u[1] + v[1] + lo \div 65536) % 65536, lo % 65536>>
Shr(u, n) ==
    IF n >= 16 THEN <<0, u[1] \div 2^(n - 16)>>
    ELSE <<u[1] \div 2^n, u[2] \div 2^n + (u[1] % 2^n) * 2^(16 - n)>>
Rotr(u, n) ==
    IF n >= 16
    THEN LET m == n - 16 IN
         <<u[2] \div 2^m + (u[1] % 2^m) * 2^(16 - m),
           u[1] \div 2^m + (u[2] % 2^m) * 2^(16 - m)>>
    ELSE <<u[1] \div 2^n + (u[2] % 2^n) * 2^(16 - n),
           u[2] \div 2^n + (u[1] % 2^n) * 2^(16 - n)>>

SHA256_K ==
    << <<17034, 12184>>, <<28983, 17553>>, <<46528, 64463>>, <<59829, 56229>>,
       <<14678, 49755>>, <<23025, 4593>>, <<37439, 33444>>, <<43804, 24277>>,
       <<55303, 43672>>, <<4739, 23297>>, <<9265, 34238>>, <<21772, 32195>>,
       <<29374, 23924>>, <<32990, 45566>>, <<39900, 1703>>, <<49563, 61812>>,
       <<58523, 27073>>, <<61374, 18310>>, <<4033, 40390>>, <<9228, 41420>>,
       <<11753, 11375>>, <<19060, 33962>>, <<23728, 43484>>, <<30457, 35034>>,
       <<38974, 20818>>, <<43057, 50797>>, <<45059, 10184>>, <<48985, 32711>>,
       <<50912, 3059>>, <<54695, 37191>>, <<1738, 25425>>, <<5161, 10599>>,
       <<10167, 2693>>, <<11803, 8504>>, <<19756, 28156>>, <<21304, 3347>>,
       <<25866, 29524>>, <<30314, 2747>>, <<33218, 51502>>, <<37490, 11397>>,
       <<41663, 59553>>, <<43034, 26187>>, <<49739, 35696>>, <<51052, 20899>>,
       <<53650, 59417>>, <<54937, 1572>>, <<62478, 13701>>, <<4202, 41072>>,
       <<6564, 49430>>, <<7735, 27656>>, <<10056, 30540>>, <<13488, 48309>>,
       <<14620, 3251>>, <<20184, 43594>>, <<23452, 51791>>, <<26670, 28659>>,
       <<29839, 33518>>, <<30885, 25455>>, <<33992, 30740>>, <<36039, 520>>,
       <<37054, 65530>>, <<42064, 27883>>, <<48889, 41975>>, <<50801, 30962>> >>
SHA256_H0 ==
    << <<27145, 58983>>, <<47975, 44677>>, <<15470, 62322>>, <<42319, 62778>>,
       <<20750, 21119>>, <<39685, 26764>>, <<8067, 55723>>, <<23520, 52505>> >>

\* the message, the byte 0x80, zero bytes up to 56 modulo 64, and the length
\* in bits as 8 bytes
Pad(m) ==
    LET zeros == (119 - (Len(m) % 64)) % 64
        bits  == 8 * Len(m)
    IN  m \o <<128>> \o [i \in 1..zeros |-> 0]
          \o <<0, 0, 0, 0, bits \div 16777216, (bits \div 65536) % 256,
               (bits \div 256) % 256, bits % 256>>

\* The functions of FIPS 180-4 on a word
SmallSigma0(x) == Xor(Xor(Rotr(x, 7), Rotr(x, 18)), Shr(x, 3))
SmallSigma1(x) == Xor(Xor(Rotr(x, 17), Rotr(x, 19)), Shr(x, 10))
BigSigma0(x) == Xor(Xor(Rotr(x, 2), Rotr(x, 13)), Rotr(x, 22))
BigSigma1(x) == Xor(Xor(Rotr(x, 6), Rotr(x, 11)), Rotr(x, 25))
Ch(x, y, z) == Xor(And(x, y), And(Not(x), z))
Maj(x, y, z) == Xor(Xor(And(x, y), And(x, z)), And(y, z))

\* The next word of the message schedule w, which has t - 1 words
NextWord(w, t) ==
    Add(Add(w[t - 16], SmallSigma0(w[t - 15])), Add(w[t - 7], SmallSigma1(w[t - 2])))

RECURSIVE Schedule(_)
Schedule(w) ==
    IF Len(w) = 64 THEN w ELSE Schedule(Append(w, NextWord(w, Len(w) + 1)))

\* The working variables v after a round with the temporaries t1 and t2
Shift(v, t1, t2) ==
    <<Add(t1, t2), v[1], v[2], v[3], Add(v[4], t1), v[5], v[6], v[7]>>

\* One round of the compression function on the working variables v
Round(v, wt, kt) ==
    Shift(v, Add(Add(Add(v[8], BigSigma1(v[5])), Add(Ch(v[5], v[6], v[7]), kt)), wt),
             Add(BigSigma0(v[1]), Maj(v[1], v[2], v[3])))

\* The working variables after each round so far, vs[1] being the hash value
\* the block starts from
RECURSIVE Rounds(_, _)
Rounds(vs, w) ==
    IF Len(vs) = 65 THEN vs[65]
    ELSE Rounds(Append(vs, Round(vs[Len(vs)], w[Len(vs)], SHA256_K[Len(vs)])), w)

\* The 16 words of the block of m at offset o, big-endian
BlockWords(m, o) ==
    [i \in 1..16 |-> <<256 * m[o + 4 * i - 3] + m[o + 4 * i - 2],
                       256 * m[o + 4 * i - 1] + m[o + 4 * i]>>]

\* The hash value h with the working variables v added word by word
AddWords(h, v) == [i \in 1..8 |-> Add(h[i], v[i])]

\* The hash value after the blocks of m from offset o on
RECURSIVE Blocks(_, _, _)
Blocks(h, m, o) ==
    IF o >= Len(m) THEN h
    ELSE Blocks(AddWords(h, Rounds(<<h>>, Schedule(BlockWords(m, o)))), m, o + 64)

\* The bytes of the words of h, big-endian
WordBytes(h) ==
    [i \in 1..(4 * Len(h)) |->
       IF (i - 1) % 4 = 0 THEN h[(i + 3) \div 4][1] \div 256
       ELSE IF (i - 1) % 4 = 1 THEN h[(i + 3) \div 4][1] % 256
       ELSE IF (i - 1) % 4 = 2 THEN h[(i + 3) \div 4][2] \div 256
       ELSE h[(i + 3) \div 4][2] % 256]

\* hashlib.sha256(m).digest(): 32 bytes
Digest(m) == WordBytes(Blocks(SHA256_H0, Pad(m), 0))

Rep(c, n) == [i \in 1..n |-> c]

\* A secret of 73 bytes, and the secret of 28 characters whose UTF-8 bytes
\* are the SHA-256 digest of the first
SecretLong == Rep(Ord("a"), 65) \o Str(<<"5","0","4","0","4","4","0","8">>)
SecretDigest ==
    << 60, 113, 25, 24, 102, 4, 64, 126, 31, 52, 95, 70, 56, 774, 93, 81, 97,
       25, 69, 87, 93, 1869, 63398, 81, 57, 80, 36, 12 >>

\* Secrets: short ones; of exactly the block size and one byte more, in ASCII
\* and in two-byte characters (U+00E9); the pair above; and one that holds a
\* surrogate
Secrets == { <<NUL>>, Str(<<"k">>), Str(<<"k">>) \o <<NUL>>, Str(<<"q">>),
             Rep(Ord("a"), HMAC_BLOCK_SIZE),
             Rep(Ord("a"), HMAC_BLOCK_SIZE) \o <<NUL>>,
             Rep(233, 32),
             Rep(233, 32) \o <<NUL>>,
             SecretLong,
             SecretDigest,
             <<56448>> }

\* The SHA-256 digests of the keys longer than the block size, each computed
\* once
KeyDigests ==
    { <<utf8(sec), Digest(utf8(sec))>> :
        sec \in { x \in Secrets : encode(x).kind = "return"
                                  /\ Len(utf8(x)) > HMAC_BLOCK_SIZE } }

\* The digest of m in a table of <<message, digest>> pairs, computed when
\* the table does not hold it
Lookup(table, m) ==
    IF \E p \in table : p[1] = m
    THEN (CHOOSE p \in table : p[1] = m)[2]
    ELSE Digest(m)

\* hashlib.sha256(m).digest(), looked up when it is the digest of a key
sha256(m) == Lookup(KeyDigests, m)

\* the payload keys of send_completion_webhook in the order str compares them
KeyOrder ==
    << "completed_at", "created_at", "error_message", "generation_time_seconds",
       "job_id", "status", "video_url" >>

KeyRank(k) == CHOOSE i \in 1..Len(KeyOrder) : KeyOrder[i] = k

RemoveAt(q, i) == [j \in 1..(Len(q) - 1) |-> IF j < i THEN q[j] ELSE q[j + 1]]

\* Variant: the items are written in insertion order
json_dumps_Unsorted(pl) == pl

\* json.dumps(pl, sort_keys=True): the items by ascending key
RECURSIVE json_dumps(_)
json_dumps(pl) ==
    IF pl = <<>>
    THEN <<>>
    ELSE LET m == CHOOSE i \in 1..Len(pl) :
                     \A j \in 1..Len(pl) :
                         KeyRank(pl[i][1]) <= KeyRank(pl[j][1])
         IN  <<pl[m]>> \o json_dumps(RemoveAt(pl, m))

\* k + b"\0" * (block_size - len(k))
ZeroPad(k) == [i \in 1..HMAC_BLOCK_SIZE |-> IF i <= Len(k) THEN k[i] ELSE 0]

\* the key block as hmac.new builds it: a key longer than the block size is
\* first replaced by its SHA-256 digest, then the key is zero-padded to the
\* block size
PadKey(key) ==
    ZeroPad(IF Len(key) > HMAC_BLOCK_SIZE THEN sha256(key) ELSE key)

\* hmac.new(key, message, hashlib.sha256).hexdigest()
hmac_sha256_hexdigest(key, message) == <<PadKey(key), message>>

_generate_signature(pl, secret) ==
    LET message == json_dumps(pl)
        key     == encode(secret)
    IN  IF key.kind = "raise" THEN key
        ELSE Returned(hmac_sha256_hexdigest(key.value, message))

verify_webhook_signature(pl, signature, secret) ==
    LET message == json_dumps(pl)
        key     == encode(secret)
    IN  IF key.kind = "raise" THEN key
        ELSE Returned(signature = hmac_sha256_hexdigest(key.value, message))

\* Inputs
Orderings(S) ==
    { q \in [1..Cardinality(S) -> S] : \A i, j \in 1..Cardinality(S) :
                                            i # j => q[i] # q[j] }

PayloadDicts ==
    { { <<"job_id", "j1">>, <<"status", "completed">>, <<"video_url", "url1">> },
      { <<"job_id", "j1">>, <<"status", "failed">> },
      { <<"job_id", "j1">>, <<"status", "completed">> } }

Payloads == UNION { Orderings(d) : d \in PayloadDicts }

InitSign ==
    /\ StoreIdle
    /\ ProcIdle
    /\ LimIdle
    /\ RlIdle
    /\ \E p \in Payloads, p2 \in Payloads, sec \in Secrets, sec2 \in Secrets :
          fnIn = [payload |-> p, secret |-> sec, received |-> p2, secret2 |-> sec2]
    /\ fnOut = [signature |-> Null, valid |-> Null]

\* the sender signs the payload under its secret
Sign ==
    /\ IsNull(fnOut.signature)
    /\ fnOut' = [fnOut EXCEPT
                   !.signature = Some(_generate_signature(fnIn.payload, fnIn.secret))]
    /\ UNCHANGED <<storeVars, procVars, limVars, rlVars, fnIn>>

\* the receiver verifies the signature against its payload under its secret
Verify ==
    /\ ~IsNull(fnOut.signature)
    /\ Val(fnOut.signature).kind = "return"
    /\ IsNull(fnOut.valid)
    /\ fnOut' = [fnOut EXCEPT
                   !.valid = Some(verify_webhook_signature(
                                     fnIn.received, Val(fnOut.signature).value,
                                     fnIn.secret2))]
    /\ UNCHANGED <<storeVars, procVars, limVars, rlVars, fnIn>>

NextSign == Sign \/ Verify

SpecSign == InitSign /\ [][NextSign]_vars

\* the dict a payload is, whatever its insertion order
AsDict(pl) == { pl[i] : i \in 1..Len(pl) }

RECURSIVE StripTrailingNul(_)
StripTrailingNul(secret) ==
    IF secret # <<>> /\ secret[Len(secret)] = NUL
    THEN StripTrailingNul(SubSeq(secret, 1, Len(secret) - 1))
    ELSE secret

\* The key HMAC works with, up to its zero padding: the UTF-8 bytes of the
\* secret, replaced by their SHA-256 digest when they are more than 64, without
\* trailing zero bytes
EffectiveKey(secret) ==
    LET bytes == encode(secret).value
    IN  StripTrailingNul(IF Len(bytes) > HMAC_BLOCK_SIZE THEN sha256(bytes)
                         ELSE bytes)

\* C14: verify_webhook_signature(p, sig, s) is true when sig is what
\* _generate_signature produces for p under s, whatever the key order of p;
\* for a payload whose canonical JSON differs, or for any secret different
\* from s, verification of the same sig is false.
C14_SignatureVerifiesOnlySamePayloadAndSecret ==
    ~IsNull(fnOut.valid) =>
        Val(fnOut.valid) = Returned(/\ AsDict(fnIn.received) = AsDict(fnIn.payload)
                                    /\ fnIn.secret2 = fnIn.secret)

\* C14 (amended): for every secret s, of any length, verification of the
\* signature of p under s is true for p in any key order and false for a
\* payload whose canonical JSON differs; under another secret it is false
\* unless the two secrets give HMAC the same key (their UTF-8 bytes, hashed
\* when longer than 64 bytes, differ only by trailing zero bytes); a secret
\* that has no UTF-8 encoding makes the verification raise
\* UnicodeEncodeError.
C14_SignatureVerifiesUpToKeyPadding ==
    ~IsNull(fnOut.valid) =>
        IF encode(fnIn.secret2).kind = "raise"
        THEN /\ Val(fnOut.valid).kind = "raise"
             /\ Val(fnOut.valid).error = "UnicodeEncodeError"
        ELSE Val(fnOut.valid) =
                Returned(/\ AsDict(fnIn.received) = AsDict(fnIn.payload)
                         /\ EffectiveKey(fnIn.secret2) = EffectiveKey(fnIn.secret))

\* the receiver's payload has the sender's items in another order, the
\* secrets are the same secret of more than 64 bytes, and the signature
\* verified
C14_Witness ==
    /\ ~IsNull(fnOut.valid)
    /\ fnIn.received # fnIn.payload
    /\ AsDict(fnIn.received) = AsDict(fnIn.payload)
    /\ fnIn.secret2 = fnIn.secret
    /\ Len(encode(fnIn.secret).value) > HMAC_BLOCK_SIZE
    /\ Val(fnOut.valid) = Returned(TRUE)

----------------------------------------------------------------------------
(* Authenticator (auth.py)                                                 *)
(*                                                                         *)
(* SHA-256 is taken to be free of collisions: the fingerprint of a key is  *)
(* the key under a tag. The header value is Null when the header is absent. *)

MaxKeys == 3    \* longest configured key list explored

API_KEY_MIN_LENGTH == 16

allowed_chars == Lower \cup Upper \cup Digit \cup {Ord("-"), Ord("_")}

\* hashlib.sha256(api_key.encode()).hexdigest(): the fingerprint of the UTF-8
\* bytes, the hash taken to be free of collisions; encode() raises on a key
\* that has no UTF-8 encoding
hash_api_key(api_key) ==
    LET bytes == encode(api_key)
    IN  IF bytes.kind = "raise" THEN bytes
        ELSE Returned(<<"sha256", bytes.value>>)

constant_time_compare(a, b) == a = b

validate_api_key_format(api_key) ==
    /\ api_key # <<>>
    /\ Len(api_key) >= API_KEY_MIN_LENGTH
    /\ \A i \in 1..Len(api_key) : api_key[i] \in allowed_chars

\* the loop over configured_keys from index i on: whether a key matched,
\* how many configured fingerprints were compared, and whether the loop was
\* left by the exception of hash_api_key(configured_key)
RECURSIVE ScanKeys(_, _, _)
ScanKeys(configured_keys, i, key_hash) ==
    IF i > Len(configured_keys)
    THEN [valid |-> FALSE, compared |-> Len(configured_keys), raised |-> FALSE]
    ELSE IF hash_api_key(configured_keys[i]).kind = "raise"
    THEN [valid |-> FALSE, compared |-> i - 1, raised |-> TRUE]
    ELSE IF constant_time_compare(key_hash, hash_api_key(configured_keys[i]).value)
    THEN [valid |-> TRUE, compared |-> i, raised |-> FALSE]
    ELSE ScanKeys(configured_keys, i + 1, key_hash)

\* verify_api_key: what it returns or raises, and the comparisons it made
verify_api_key(x_api_key, configured_keys) ==
    IF IsNull(x_api_key) \/ Val(x_api_key) = <<>>
    THEN [out |-> Raised("AuthenticationError", "missing"), compared |-> 0]
    ELSE IF ~validate_api_key_format(Val(x_api_key))
    THEN [out |-> Raised("AuthenticationError", "format"), compared |-> 0]
    ELSE LET key_hash == hash_api_key(Val(x_api_key))
             scan == ScanKeys(configured_keys, 1, key_hash.value)
         IN  IF key_hash.kind = "raise"
             THEN [out |-> key_hash, compared |-> 0]
             ELSE IF scan.raised
             THEN [out |-> Raised("UnicodeEncodeError", "surrogates not allowed"),
                   compared |-> scan.compared]
             ELSE IF ~scan.valid
             THEN [out |-> Raised("AuthenticationError", "invalid"),
                   compared |-> scan.compared]
             ELSE [out |-> key_hash, compared |-> scan.compared]

\* Inputs
KeyA == Rep(Ord("a"), 16)
KeyB == Rep(Ord("B"), 15) \o Str(<<"_">>)
KeyBang == Rep(Ord("a"), 15) \o Str(<<"!">>)      \* long enough, one character not allowed
KeyShort == Rep(Ord("a"), 15)
KeyOther == Rep(Ord("9"), 15) \o Str(<<"-">>)
KeySurrogate == Rep(56448, 16)                    \* long enough, no UTF-8 encoding

\* settings.get_api_key_list(): the keys config.parse_api_keys accepts
ConfigurableKeys == {KeyA, KeyB, KeyBang, KeySurrogate}

KeyLists == UNION { [1..n -> ConfigurableKeys] : n \in 1..MaxKeys }

Credentials ==
    {Null} \cup { Some(k) : k \in {<<>>, KeyA, KeyB, KeyBang, KeyShort, KeyOther} }

InitAuth ==
    /\ StoreIdle
    /\ ProcIdle
    /\ LimIdle
    /\ RlIdle
    /\ \E c \in Credentials, ks \in KeyLists :
          fnIn = [x_api_key |-> c, configured_keys |-> ks]
    /\ fnOut = Null

ApplyVerifyApiKey ==
    /\ IsNull(fnOut)
    /\ fnOut' = Some(verify_api_key(fnIn.x_api_key, fnIn.configured_keys))
    /\ UNCHANGED <<storeVars, procVars, limVars, rlVars, fnIn>>

NextAuth == ApplyVerifyApiKey

SpecAuth == InitAuth /\ [][NextAuth]_vars

\* the presented credential is well formed, by the rule of the claim
WellFormedCredential ==
    /\ ~IsNull(fnIn.x_api_key)
    /\ Len(Val(fnIn.x_api_key)) >= 16
    /\ \A i \in 1..Len(Val(fnIn.x_api_key)) :
          Val(fnIn.x_api_key)[i] \in Lower \cup Upper \cup Digit \cup {Ord("-"), Ord("_")}

IsConfigured ==
    \E i \in 1..Len(fnIn.configured_keys) :
        fnIn.configured_keys[i] = Val(fnIn.x_api_key)

\* C15: verify_api_key returns the SHA-256 fingerprint of the presented
\* credential if and only if the credential is present, passes the format
\* check and equals one of the configured keys; in every other case it raises
\* AuthenticationError; the fingerprint depends on the credential alone.
C15_FingerprintIffValidKey ==
    ~IsNull(fnOut) =>
        IF WellFormedCredential /\ IsConfigured
        THEN Val(fnOut).out = Returned(<<"sha256", utf8(Val(fnIn.x_api_key))>>)
        ELSE /\ Val(fnOut).out.kind = "raise"
             /\ Val(fnOut).out.error = "AuthenticationError"

\* C16: the number of configured-key fingerprints verify_api_key compares
\* with the presented credential equals the number of configured keys for
\* every well-formed credential, whether or not one matches and whatever the
\* position of the match.
C16_ComparesEveryConfiguredKey ==
    (~IsNull(fnOut) /\ WellFormedCredential) =>
        Val(fnOut).compared = Len(fnIn.configured_keys)

----------------------------------------------------------------------------
(* Generation parameter validators (validation.py, limits of config.py)    *)

MAX_WIDTH == 1920
MAX_HEIGHT == 1080
MAX_FRAMES == 257

\* Variant: only the upper bound of the aspect ratio is checked
AspectTooExtreme_UpperOnly(width, height) == width > 3 * height

\* aspect_ratio = width / height; aspect_ratio < 0.5 or aspect_ratio > 3.0,
\* for height > 0
AspectTooExtreme(width, height) ==
    \/ 2 * width < height
    \/ width > 3 * height

validate_dimensions(width, height) ==
    IF width < 256 \/ width > MAX_WIDTH
    THEN Raised("ValidationError", "width_range")
    ELSE IF height < 256 \/ height > MAX_HEIGHT
    THEN Raised("ValidationError", "height_range")
    ELSE IF width % 8 # 0
    THEN Raised("ValidationError", "width_multiple")
    ELSE IF height % 8 # 0
    THEN Raised("ValidationError", "height_multiple")
    ELSE IF AspectTooExtreme(width, height)
    THEN Raised("ValidationError", "aspect_ratio")
    ELSE Returned(<<width, height>>)

\* Variant: the upper limit itself is refused
FramesOutOfRange_Exclusive(num_frames) ==
    num_frames < 25 \/ num_frames >= MAX_FRAMES

FramesOutOfRange(num_frames) ==
    num_frames < 25 \/ num_frames > MAX_FRAMES

validate_num_frames(num_frames) ==
    IF FramesOutOfRange(num_frames)
    THEN Raised("ValidationError", "frames_range")
    ELSE IF num_frames % 2 = 0
    THEN Raised("ValidationError", "frames_even")
    ELSE Returned(num_frames)

\* Inputs
Widths ==
    { -8, 0, 8, 248, 255, 256, 257, 260, 264, 512, 768, 1080, 1088, 1912,
      1920, 1921, 1928, 2048 }
Heights ==
    { -8, 0, 248, 255, 256, 257, 264, 512, 520, 528, 640, 1072, 1080, 1081,
      1088 }
FrameCounts ==
    { -3, 0, 1, 23, 24, 25, 26, 27, 121, 128, 255, 256, 257, 258, 259 }

InitParams ==
    /\ StoreIdle
    /\ ProcIdle
    /\ LimIdle
    /\ RlIdle
    /\ \E w \in Widths, h \in Heights, n \in FrameCounts :
          fnIn = [width |-> w, height |-> h, num_frames |-> n]
    /\ fnOut = [dimensions |-> Null, num_frames |-> Null]

ApplyValidateDimensions ==
    /\ IsNull(fnOut.dimensions)
    /\ fnOut' = [fnOut EXCEPT
                   !.dimensions = Some(validate_dimensions(fnIn.width, fnIn.height))]
    /\ UNCHANGED <<storeVars, procVars, limVars, rlVars, fnIn>>

ApplyValidateNumFrames ==
    /\ IsNull(fnOut.num_frames)
    /\ fnOut' = [fnOut EXCEPT
                   !.num_frames = Some(validate_num_frames(fnIn.num_frames))]
    /\ UNCHANGED <<storeVars, procVars, limVars, rlVars, fnIn>>

NextParams == ApplyValidateDimensions \/ ApplyValidateNumFrames

SpecParams == InitParams /\ [][NextParams]_vars

\* the pairs the claim says are refused
DimensionsRefused ==
    LET w == fnIn.width
        h == fnIn.height
    IN  \/ w % 8 # 0 \/ h % 8 # 0
        \/ w < 256 \/ h < 256
        \/ w > 1920 \/ h > 1080
        \/ (h > 0 /\ (w * 2 < h \/ w > h * 3))

\* C17: validate_dimensions raises ValidationError for every integer pair in
\* which width or height is not a multiple of 8, is below 256 or above the
\* configured maximum, or width/height lies outside [0.5, 3.0]; for every
\* other pair it returns (width, height) unchanged.
C17_DimensionsAcceptedIffInBounds ==
    ~IsNull(fnOut.dimensions) =>
        IF DimensionsRefused
        THEN /\ Val(fnOut.dimensions).kind = "raise"
             /\ Val(fnOut.dimensions).error = "ValidationError"
        ELSE Val(fnOut.dimensions) = Returned(<<fnIn.width, fnIn.height>>)

\* a pair within the limits, both multiples of 8, with width/height below
\* 0.5, has been refused
C17_Witness ==
    /\ ~IsNull(fnOut.dimensions)
    /\ fnIn.width = 256
    /\ fnIn.height = 520
    /\ Val(fnOut.dimensions).kind = "raise"

\* C18: validate_num_frames raises ValidationError for every even n and for
\* every n outside [25, MAX_FRAMES], and returns n unchanged for every odd n
\* inside the range.
C18_FramesAcceptedIffOddInRange ==
    ~IsNull(fnOut.num_frames) =>
        LET n == fnIn.num_frames
        IN  IF n % 2 = 0 \/ n < 25 \/ n > 257
            THEN /\ Val(fnOut.num_frames).kind = "raise"
                 /\ Val(fnOut.num_frames).error = "ValidationError"
            ELSE Val(fnOut.num_frames) = Returned(n)

\* the largest frame count allowed has been accepted
C18_Witness ==
    /\ ~IsNull(fnOut.num_frames)
    /\ fnIn.num_frames = 257
    /\ Val(fnOut.num_frames) = Returned(257)

----------------------------------------------------------------------------
(* Status transitions of the job store, under SpecStore                    *)

\* C19: a second update_job_status(id, 'processing', started_at) on a job
\* that is already 'processing' leaves the status 'processing' and started_at
\* at the value the first call wrote.
C19_SecondMarkKeepsStartedAt ==
    [][ CallUpdateJobStatus =>
          \A id \in DOMAIN jobs :
            (/\ jobs[id].status = "processing"
             /\ ~IsNull(jobs[id].started_at)
             /\ jobs'[id].status = "processing")
            => jobs'[id].started_at = jobs[id].started_at ]_vars

\* the status changes the state machine allows
AllowedTransitions ==
    { <<"queued", "processing">>, <<"processing", "completed">>,
      <<"queued", "failed">>, <<"processing", "failed">> }

\* C20: for any sequence of job-store calls the status history of a job is a
\* prefix of queued -> processing -> completed or of queued -> [processing ->]
\* failed: a job has a status only after create_job stored it as 'queued', it
\* reaches 'completed' only from 'processing', and it never moves backward.
C20_StatusHistoryFollowsStateMachine ==
    [][ \A id \in DOMAIN jobs' :
          IF id \notin DOMAIN jobs
          THEN jobs'[id].status = "queued"
          ELSE \/ jobs'[id].status = jobs[id].status
               \/ <<jobs[id].status, jobs'[id].status>> \in AllowedTransitions ]_vars

----------------------------------------------------------------------------
(* Job-store calls and what they return (database.py): create_job,         *)
(* update_webhook_delivered and get_jobs_by_api_key on a table of up to    *)
(* three jobs of two owners. fnIn is the latest call, fnOut its outcome.   *)

MaxOps == 3     \* writes to the table explored in one behaviour

QJobIds == {"j1", "j2", "j3"}

\* the columns get_jobs_by_api_key selects
ListedRow(tbl, id) ==
    [ job_id                  |-> id,
      status                  |-> tbl[id].status,
      created_at              |-> tbl[id].created_at,
      completed_at            |-> tbl[id].completed_at,
      generation_time_seconds |-> tbl[id].generation_time_seconds,
      error_message           |-> tbl[id].error_message ]

\* Variant: the status filter replaces the owner filter
MatchingJobs_StatusOnly(tbl, key_hash, status) ==
    { id \in DOMAIN tbl :
        IF IsNull(status) \/ Val(status) = ""
        THEN tbl[id].api_key_hash = key_hash
        ELSE tbl[id].status = Val(status) }

\* WHERE api_key_hash = :key_hash [AND status = :status]
MatchingJobs(tbl, key_hash, status) ==
    { id \in DOMAIN tbl :
        /\ tbl[id].api_key_hash = key_hash
        /\ (IsNull(status) \/ Val(status) = "" \/ tbl[id].status = Val(status)) }

\* ORDER BY created_at DESC FETCH FIRST :limit ROWS ONLY: the lists the
\* query may return (rows of equal created_at come in any order)
get_jobs_by_api_key(tbl, key_hash, limit, status) ==
    LET m == MatchingJobs(tbl, key_hash, status)
        n == Min(Max(limit, 0), Cardinality(m))
        picks == { q \in [1..n -> m] :
                     /\ \A i, j \in 1..n : i < j =>
                           /\ q[i] # q[j]
                           /\ tbl[q[i]].created_at >= tbl[q[j]].created_at
                     /\ \A id \in m : (\A i \in 1..n : q[i] # id) =>
                           \A i \in 1..n : tbl[q[i]].created_at >= tbl[id].created_at }
    IN  { [i \in 1..n |-> ListedRow(tbl, q[i])] : q \in picks }

InitQuery ==
    /\ StoreIdle
    /\ ProcIdle
    /\ LimIdle
    /\ RlIdle
    /\ FnIdle

\* the latest call left the table as it was: the behaviour ends there, the
\* calls that could follow from this table follow from the call before
QObserved ==
    /\ fnIn # Null
    /\ \/ fnIn.op = "get_jobs_by_api_key"
       \/ fnOut.kind = "raise"
       \/ fnOut = Returned(FALSE)

QTick ==
    /\ ~QObserved
    /\ clock < MaxClock
    /\ clock' = clock + 1
    /\ UNCHANGED <<jobs, calls, procVars, limVars, rlVars, fnVars>>

QCreateJob ==
    /\ ~QObserved
    /\ \E id \in QJobIds, k \in KeyHashes :
          /\ fnIn' = [op |-> "create_job", job_id |-> id, api_key_hash |-> k]
          /\ IF create_job_raises(jobs, id)
             THEN /\ fnOut' = Raised("DatabaseError", "create_job")
                  /\ UNCHANGED <<jobs, calls>>
             ELSE /\ calls < MaxOps
                  /\ jobs' = create_job(jobs, id, k, Null, clock)
                  /\ calls' = calls + 1
                  /\ fnOut' = Returned(TRUE)
    /\ UNCHANGED <<clock, procVars, limVars, rlVars>>

QUpdateJobStatus ==
    /\ ~QObserved
    /\ calls < MaxOps
    /\ \E id \in DOMAIN jobs :
          /\ fnIn' = [op |-> "update_job_status", job_id |-> id]
          /\ jobs' = update_job_status(jobs, id, "processing", Null)
          /\ fnOut' = Returned(RowCountPositive(jobs, id))
    /\ calls' = calls + 1
    /\ UNCHANGED <<clock, procVars, limVars, rlVars>>

QUpdateWebhookDelivered ==
    /\ ~QObserved
    /\ \E id \in QJobIds, d \in BOOLEAN :
          /\ fnIn' = [op |-> "update_webhook_delivered", job_id |-> id,
                      delivered |-> d, attempts |-> 1]
          /\ jobs' = update_webhook_delivered(jobs, id, d, 1, clock)
          /\ fnOut' = Returned(RowCountPositive(jobs, id))
          /\ IF RowCountPositive(jobs, id)
             THEN calls < MaxOps /\ calls' = calls + 1
             ELSE UNCHANGED calls
    /\ UNCHANGED <<clock, procVars, limVars, rlVars>>

QGetJobsByApiKey ==
    /\ ~QObserved
    /\ jobs # EmptyTable
    /\ \E k \in KeyHashes, lim \in {1, 2}, st \in {Null, Some("processing")} :
          /\ fnIn' = [op |-> "get_jobs_by_api_key", api_key_hash |-> k,
                      limit |-> lim, status |-> st]
          /\ \E rows \in get_jobs_by_api_key(jobs, k, lim, st) :
                fnOut' = Returned(rows)
    /\ UNCHANGED <<storeVars, procVars, limVars, rlVars>>

NextQuery ==
    \/ QTick
    \/ QCreateJob
    \/ QUpdateJobStatus
    \/ QUpdateWebhookDelivered
    \/ QGetJobsByApiKey

SpecQuery == InitQuery /\ [][NextQuery]_vars


Listed == fnIn # Null /\ fnIn.op = "get_jobs_by_api_key"

\* the jobs of the table that belong to one fingerprint
OwnJobs(key_hash) ==
    [id \in { j \in DOMAIN jobs : jobs[j].api_key_hash = key_hash } |-> jobs[id]]

\* the jobs the caller may see under the filter of the call
Visible ==
    { id \in DOMAIN jobs :
        /\ jobs[id].api_key_hash = fnIn.api_key_hash
        /\ (~IsNull(fnIn.status) => jobs[id].status = Val(fnIn.status)) }

\* C21: get_jobs_by_api_key(h, limit, status) returns only jobs whose
\* api_key_hash is h, at most `limit` of them, the most recently created ones
\* in descending created_at order, with a status filter only jobs of that
\* status; the result does not depend on the jobs of any other fingerprint.
C21_ListingOwnRecentJobsOnly ==
    Listed =>
        LET rows == fnOut.value
            n == Len(rows)
        IN  /\ \A i \in 1..n :
                  /\ rows[i].job_id \in Visible
                  /\ rows[i].status = jobs[rows[i].job_id].status
                  /\ rows[i].created_at = jobs[rows[i].job_id].created_at
            /\ n <= fnIn.limit
            /\ n = fnIn.limit \/ n = Cardinality(Visible)
            /\ \A i, j \in 1..n : i < j =>
                  /\ rows[i].job_id # rows[j].job_id
                  /\ rows[i].created_at >= rows[j].created_at
            /\ \A id \in Visible :
                  (\A i \in 1..n : rows[i].job_id # id) =>
                      \A i \in 1..n : rows[i].created_at >= jobs[id].created_at
            /\ rows \in get_jobs_by_api_key(OwnJobs(fnIn.api_key_hash),
                                            fnIn.api_key_hash, fnIn.limit, fnIn.status)

\* three jobs are stored, two of the caller and one of somebody else, the
\* caller's jobs were created at different times, and a listing with limit 1
\* returned the later one
C21_Witness ==
    /\ Listed
    /\ Cardinality(DOMAIN jobs) = 3
    /\ IsNull(fnIn.status)
    /\ fnIn.limit = 1
    /\ Cardinality(Visible) = 2
    /\ \E a, b \in Visible : jobs[a].created_at < jobs[b].created_at
    /\ Len(fnOut.value) = 1

\* C22: update_webhook_delivered(id, delivered, attempts) changes only
\* webhook_delivered, webhook_attempts and last_webhook_attempt of job id;
\* the status, the timestamps, the result fields and error_message of that
\* job and every field of every other job are unchanged; on an unknown id it
\* changes nothing and returns False.
C22_WebhookBookkeepingOnly ==
    [][ QUpdateWebhookDelivered =>
          /\ DOMAIN jobs' = DOMAIN jobs
          /\ \A id \in DOMAIN jobs :
                /\ \A c \in NonWebhookColumns : jobs'[id][c] = jobs[id][c]
                /\ id # fnIn'.job_id => jobs'[id] = jobs[id]
          /\ IF fnIn'.job_id \in DOMAIN jobs
             THEN /\ jobs'[fnIn'.job_id].webhook_delivered = fnIn'.delivered
                  /\ jobs'[fnIn'.job_id].webhook_attempts = fnIn'.attempts
                  /\ fnOut' = Returned(TRUE)
             ELSE /\ jobs' = jobs
                  /\ fnOut' = Returned(FALSE) ]_vars

\* the bookkeeping of one job was updated while another job is stored
C22_Witness ==
    /\ fnIn # Null
    /\ fnIn.op = "update_webhook_delivered"
    /\ fnOut = Returned(TRUE)
    /\ Cardinality(DOMAIN jobs) >= 2
    /\ jobs[fnIn.job_id].webhook_delivered

\* C23: create_job with a new job ID stores a record in status 'queued' with
\* no result, no error and no webhook delivery recorded, and leaves every other
\* record alone; create_job with an ID that already exists raises an error and
\* leaves the table, the existing record included, unchanged.
C23_CreateStoresQueuedOrFails ==
    [][ QCreateJob =>
          IF fnIn'.job_id \in DOMAIN jobs
          THEN /\ fnOut'.kind = "raise"
               /\ fnOut'.error = "DatabaseError"
               /\ jobs' = jobs
          ELSE /\ fnOut' = Returned(TRUE)
               /\ DOMAIN jobs' = DOMAIN jobs \cup {fnIn'.job_id}
               /\ \A id \in DOMAIN jobs : jobs'[id] = jobs[id]
               /\ jobs'[fnIn'.job_id].status = "queued"
               /\ jobs'[fnIn'.job_id].api_key_hash = fnIn'.api_key_hash
               /\ jobs'[fnIn'.job_id].created_at = clock
               /\ IsNull(jobs'[fnIn'.job_id].started_at)
               /\ IsNull(jobs'[fnIn'.job_id].completed_at)
               /\ IsNull(jobs'[fnIn'.job_id].video_url)
               /\ IsNull(jobs'[fnIn'.job_id].generation_time_seconds)
               /\ IsNull(jobs'[fnIn'.job_id].error_message)
               /\ ~jobs'[fnIn'.job_id].webhook_delivered
               /\ jobs'[fnIn'.job_id].webhook_attempts = 0
               /\ IsNull(jobs'[fnIn'.job_id].last_webhook_attempt) ]_vars

\* a second create_job with the ID of a job that is already 'processing',
\* by another owner and at a later time, was refused
C23_Witness ==
    /\ fnIn # Null
    /\ fnIn.op = "create_job"
    /\ fnOut = Raised("DatabaseError", "create_job")
    /\ jobs[fnIn.job_id].status = "processing"
    /\ jobs[fnIn.job_id].api_key_hash # fnIn.api_key_hash
    /\ jobs[fnIn.job_id].created_at < clock

----------------------------------------------------------------------------
(* Webhook delivery inside one run of process_job, under SpecJob *)

Is2xx(o) == o.kind = "response" /\ IsSuccessStatus(o.code)

\* A step of deliver_webhook in which POST number `attempt` was answered and
\* after which the call waits for attempt + 1 or has returned to process_job
AttemptFinished ==
    /\ DeliverWebhookAnswer
    /\ pc' \in {"wh_sleep", "return_completed"}

\* C24: when POST attempt k of deliver_webhook has finished, and before
\* attempt k+1 begins or deliver_webhook returns, the stored row has
\* webhook_attempts = k and webhook_delivered true exactly if attempt k got a
\* 2xx response; webhook_attempts does not decrease during one delivery.
C24_BookkeepingFollowsEachAttempt ==
    [][ AttemptFinished =>
          /\ jobs'[JobId].webhook_attempts = attempt
          /\ jobs'[JobId].webhook_delivered = Is2xx(posts'[Len(posts')].outcome)
          /\ attempt > 1 =>
                jobs'[JobId].webhook_attempts >= jobs[JobId].webhook_attempts ]_vars

\* POST i+1 belongs to the same delivery as POST i
SameDelivery(i) ==
    /\ posts[i + 1].site = posts[i].site
    /\ posts[i + 1].attempt = posts[i].attempt + 1

\* C25: the delivery of the completion webhook returns True exactly when one
\* of its attempts received a 2xx response, and after an attempt that received
\* a 2xx response no further POST of that delivery is sent.
C25_TrueIffSome2xxAndThenStops ==
    /\ ~IsNull(whResult) =>
          (Val(whResult) <=>
             \E i \in 1..Len(posts) :
                posts[i].site = "success" /\ Is2xx(posts[i].outcome))
    /\ \A i \in 1..(Len(posts) - 1) :
          Is2xx(posts[i].outcome) => ~SameDelivery(i)

\* validation, generation, upload and the database calls of the run went
\* through
StepsSucceeded ==
    /\ Called("validated")
    /\ Called("generate_returned")
    /\ Called("upload_returned")
    /\ completeOk
    /\ ~dbFault

\* C26: for a job submitted without a webhook URL (the input of process_job
\* carries none, or the stored row has none), no webhook POST is sent and
\* webhook_delivered, webhook_attempts and last_webhook_attempt keep the
\* values create_job gave them, in every state of the run; and when
\* validation, generation, upload and the database writes succeeded,
\* process_job ends with the job 'completed', video_url and
\* generation_time_seconds stored, and returns status 'completed'.
C26_NoWebhookUrlNoWebhookWrites ==
    (~Truthy(InputWebhookUrl) \/ IsNull(Row.webhook_url)) =>
        /\ posts = <<>>
        /\ Row.webhook_delivered = FALSE
        /\ Row.webhook_attempts = 0
        /\ IsNull(Row.last_webhook_attempt)
        /\ (pc = "done" /\ StepsSucceeded) =>
              /\ Row.status = "completed"
              /\ Row.video_url = Some(Uploaded.signed_url)
              /\ Row.generation_time_seconds = Some(Uploaded.generation_time)
              /\ Val(ret).status = "completed"

----------------------------------------------------------------------------
(* The development rate-limit check: auth.check_rate_limit_dev on the
   module-level InMemoryRateLimiter, with the configured default limit *)

DevMaxTime == 70

\* How far the clock moves between two calls
DevTickSteps == {10, 60}

\* The key the calls are made for
DevKey == "k1"

HTTP_429_TOO_MANY_REQUESTS == 429

\* RateLimitError(detail): an HTTPException with status 429 and the header
\* Retry-After: "60"
RateLimitError(detail) ==
    [ kind        |-> "raise",
      error       |-> "RateLimitError",
      status_code |-> HTTP_429_TOO_MANY_REQUESTS,
      detail      |-> detail,
      headers     |-> [ RetryAfter |-> "60" ] ]

\* get_request_count: the timestamps of the key not older than a minute
get_request_count(reqs, key_hash, now) ==
    Len(Recent(Stored(reqs, key_hash), now))

\* check_rate_limit_dev: what the call returns or raises; `reqs` is
\* self._requests before the call, `now` the clock check_rate_limit reads
\* and `later` the clock get_request_count reads after it
check_rate_limit_dev(reqs, key_hash, now, later) ==
    IF ~check_rate_limit_ret(reqs, key_hash, RATE_LIMIT_PER_MINUTE, now)
    THEN RateLimitError(
            [ count |-> get_request_count(
                           check_rate_limit(reqs, key_hash,
                                            RATE_LIMIT_PER_MINUTE, now),
                           key_hash, later),
              limit |-> RATE_LIMIT_PER_MINUTE ])
    ELSE Returned(TRUE)

InitDev ==
    /\ StoreIdle
    /\ ProcIdle
    /\ RlIdle
    /\ FnIdle
    /\ requests = EmptyTable
    /\ admitted = (DevKey :> <<>>)
    /\ lastCall = Null

\* Time passes (datetime.utcnow() grows).
DevTick ==
    /\ \E d \in DevTickSteps :
          /\ clock + d <= DevMaxTime
          /\ clock' = clock + d
    /\ UNCHANGED <<jobs, calls, procVars, fnVars, limVars, rlVars>>

\* One call check_rate_limit_dev(DevKey): a refused call reads the clock a
\* second time, when it counts; the clock may have moved by then
CheckRateLimitDev ==
    /\ \E d \in DevTickSteps \cup {0} :
          LET out == check_rate_limit_dev(requests, DevKey, clock, clock + d) IN
          /\ clock + d <= DevMaxTime
          /\ out.kind = "return" => d = 0
          /\ clock' = clock + d
          /\ requests' = check_rate_limit(requests, DevKey,
                                          RATE_LIMIT_PER_MINUTE, clock)
          /\ admitted' = IF out = Returned(TRUE)
                         THEN [admitted EXCEPT ![DevKey] = Append(@, clock)]
                         ELSE admitted
          /\ lastCall' = Some([ key    |-> DevKey,
                                at     |-> clock,
                                result |-> out,
                                prior  |-> admitted[DevKey] ])
    /\ UNCHANGED <<jobs, calls, procVars, fnVars, rlVars>>

NextDev ==
    \/ DevTick
    \/ CheckRateLimitDev

SpecDev == InitDev /\ [][NextDev]_vars

\* How many of the calls admitted at the times `ts` lie less than a minute
\* before `now`
AdmittedInLastMinute(ts, now) ==
    Cardinality({ i \in 1..Len(ts) : now - ts[i] < WINDOW })

\* C27: with RATE_LIMIT_PER_MINUTE = 10, each of the first 10 calls of
\* check_rate_limit_dev for a key returns True; a call made within 10 seconds
\* of the first of 10 admitted calls raises RateLimitError with status 429 and
\* Retry-After "60"; and the error is raised only when 10 calls of the key
\* were admitted in the minute before the call.
C27_EleventhCallRaises429 ==
    ~IsNull(lastCall) =>
        LET c == Val(lastCall) IN
        /\ Len(c.prior) < RATE_LIMIT_PER_MINUTE => c.result = Returned(TRUE)
        /\ (/\ Len(c.prior) = RATE_LIMIT_PER_MINUTE
            /\ c.at - c.prior[1] <= 10) =>
              /\ c.result.kind = "raise"
              /\ c.result.error = "RateLimitError"
              /\ c.result.status_code = 429
              /\ c.result.headers.RetryAfter = "60"
        /\ c.result.kind = "raise" =>
              /\ AdmittedInLastMinute(c.prior, c.at) >= RATE_LIMIT_PER_MINUTE
              /\ c.result.status_code = 429
              /\ c.result.headers.RetryAfter = "60"
        /\ c.result.kind = "return" =>
              /\ c.result = Returned(TRUE)
              /\ AdmittedInLastMinute(c.prior, c.at) < RATE_LIMIT_PER_MINUTE

\* the eleventh call, 10 seconds after the first, was refused
C27_Witness ==
    /\ ~IsNull(lastCall)
    /\ Len(Val(lastCall).prior) = RATE_LIMIT_PER_MINUTE
    /\ Val(lastCall).prior[1] = 0
    /\ Val(lastCall).at = 10
    /\ Val(lastCall).result.kind = "raise"

----------------------------------------------------------------------------
(* The waits of deliver_webhook, under SpecJob *)

\* A step of deliver_webhook in which a POST was answered
PostAnswered == DeliverWebhookAnswer

\* deliver_webhook went to sleep in this step
Waited == Len(sleeps') = Len(sleeps) + 1

\* C28: deliver_webhook waits only after a failed attempt k < max_retries, and
\* then for 2.5 * 2^k seconds, which are 5 * 2^k half seconds (5 s after
\* attempt 1, 10 s after attempt 2) before attempt k+1; it waits neither after the last allowed attempt nor
\* after an attempt that received a 2xx response.
C28_BackoffOnlyAfterFailedAttempt ==
    [][ /\ PostAnswered =>
             /\ Waited =>
                   /\ ~Is2xx(posts'[Len(posts')].outcome)
                   /\ attempt < WEBHOOK_MAX_RETRIES
                   /\ sleeps'[Len(sleeps')] = 5 * 2^attempt
                   /\ attempt = 1 => sleeps'[Len(sleeps')] = 2 * 5
                   /\ attempt = 2 => sleeps'[Len(sleeps')] = 2 * 10
             /\ ~Waited => sleeps' = sleeps
             /\ pc' = "wh_sleep" <=> Waited
        /\ DeliverWebhookRetry =>
             /\ clock' = clock + sleeps[Len(sleeps)]
             /\ posts[Len(posts)].attempt = attempt
             /\ attempt' = attempt + 1
        /\ ~DeliverWebhookRetry => clock' = clock ]_vars

----------------------------------------------------------------------------
(* The payload of the completion webhook, under SpecJob *)

\* The step of send_completion_webhook that built a payload
PayloadBuilt ==
    /\ SendCompletionWebhook
    /\ pc' = "wh_attempt"

\* C29: the payload send_completion_webhook builds contains job_id, status,
\* created_at and completed_at as stored; it contains video_url and
\* generation_time_seconds (as stored) exactly when the stored status is
\* 'completed', error_message (as stored) exactly when it is 'failed', and
\* never both.
C29_PayloadReflectsStoredJob ==
    [][ PayloadBuilt =>
          LET p == Val(payload')
              f == DOMAIN p
          IN  /\ {"job_id", "status", "created_at", "completed_at"} \subseteq f
              /\ p.job_id = JobId
              /\ p.status = Row.status
              /\ p.created_at = Row.created_at
              /\ p.completed_at = Row.completed_at
              /\ "video_url" \in f <=> Row.status = "completed"
              /\ "generation_time_seconds" \in f <=> Row.status = "completed"
              /\ "error_message" \in f <=> Row.status = "failed"
              /\ ~("video_url" \in f /\ "error_message" \in f)
              /\ "video_url" \in f => p.video_url = Row.video_url
              /\ "generation_time_seconds" \in f =>
                    p.generation_time_seconds = Row.generation_time_seconds
              /\ "error_message" \in f => p.error_message = Row.error_message
              /\ f \subseteq {"job_id", "status", "created_at", "completed_at",
                               "video_url", "generation_time_seconds",
                               "error_message"} ]_vars

\* a payload was built for a 'failed' job whose row still stores a video_url
C29_Witness ==
    /\ pc = "wh_attempt"
    /\ attempt = 1
    /\ whSite = "failure"
    /\ ~IsNull(payload)
    /\ Val(payload).status = "failed"
    /\ Row.status = "failed"
    /\ ~IsNull(Row.video_url)
    /\ ~IsNull(Row.error_message)

----------------------------------------------------------------------------
(* The type of what the URL validators raise, under SpecUrl *)

\* The outcome `o` of a validator call is a return or a ValidationError
ReturnsOrValidationError(o) ==
    o.kind = "raise" => o.error = "ValidationError"

\* C30: whatever validate_image_url or validate_webhook_url raises, for any
\* URL, a URL without a hostname included, is a ValidationError.
C30_RejectionsAreValidationErrors ==
    /\ ~IsNull(fnOut.image) => ReturnsOrValidationError(Val(fnOut.image))
    /\ ~IsNull(fnOut.webhook) => ReturnsOrValidationError(Val(fnOut.webhook))

----------------------------------------------------------------------------
(* The persistent rate-limit tables: OracleDatabase.check_rate_limit,
   log_request and cleanup_old_rate_limits called directly *)

MaxLogRows == 3

\* The instants at which calls are made (seconds)
Instants == {0, 30, 60, 3600, 3660, 7230}

\* The `hours` a cleanup is called with
CleanupHours == {1, 2}

\* Variant: a horizon counted in minutes
cleanup_cutoff_Minutes(hours, now) == now - hours * 60

\* cutoff = datetime.utcnow() - timedelta(hours=hours)
cleanup_cutoff(hours, now) == now - hours * 3600

\* DELETE FROM rate_limit_log WHERE request_time < :cutoff: the rows left
cleanup_old_rate_limits(log, hours, now) ==
    SelectSeq(log, LAMBDA r : ~(r.request_time < cleanup_cutoff(hours, now)))

\* cursor.rowcount of that DELETE
cleanup_rowcount(log, hours, now) ==
    Len(log) - Len(cleanup_old_rate_limits(log, hours, now))

InitRateDb ==
    /\ StoreIdle
    /\ ProcIdle
    /\ LimIdle
    /\ FnIdle
    /\ rate_limit_log = <<>>
    /\ \E a \in BOOLEAN :
          api_keys = ("k1" :> [ rate_limit_per_minute |-> StoredLimit,
                                is_active |-> a,
                                total_requests |-> 0,
                                last_used_at |-> Null ])
    /\ req = EmptyTable

\* Time passes to a later instant.
DbTick ==
    /\ \E t \in Instants :
          /\ t > clock
          /\ clock' = t
    /\ UNCHANGED <<jobs, calls, procVars, fnVars, limVars, rlVars>>

\* One call log_request(k, endpoint)
DbLogRequest ==
    /\ Len(rate_limit_log) < MaxLogRows
    /\ \E k \in KeyHashes :
          /\ rate_limit_log' = log_request(rate_limit_log, k, clock)
          /\ api_keys' = log_request_keys(api_keys, k, clock)
          /\ fnIn' = Some([op |-> "log_request", key |-> k, hours |-> 0,
                           before |-> <<>>])
          /\ fnOut' = Returned(TRUE)
    /\ UNCHANGED <<storeVars, procVars, limVars, req>>

\* One call check_rate_limit(k)
DbCheckRateLimit ==
    /\ \E k \in KeyHashes :
          /\ fnIn' = Some([op |-> "check_rate_limit", key |-> k, hours |-> 0,
                           before |-> <<>>])
          /\ fnOut' = Returned(db_check_rate_limit(rate_limit_log, api_keys, k, clock))
    /\ UNCHANGED <<storeVars, procVars, limVars, rlVars>>

\* One call cleanup_old_rate_limits(h)
DbCleanup ==
    /\ \E h \in CleanupHours :
          /\ rate_limit_log' = cleanup_old_rate_limits(rate_limit_log, h, clock)
          /\ fnIn' = Some([op |-> "cleanup_old_rate_limits", key |-> "none",
                           hours |-> h, before |-> rate_limit_log])
          /\ fnOut' = Returned(cleanup_rowcount(rate_limit_log, h, clock))
    /\ UNCHANGED <<storeVars, procVars, limVars, api_keys, req>>

NextRateDb ==
    \/ DbTick
    \/ DbLogRequest
    \/ DbCheckRateLimit
    \/ DbCleanup

SpecRateDb == InitRateDb /\ [][NextRateDb]_vars

\* The rows of `log` for `key_hash` younger than 60 seconds at `now`
YoungRows(log, key_hash, now) ==
    { i \in 1..Len(log) : /\ log[i].key_hash = key_hash
                          /\ now - log[i].request_time < WINDOW }

\* C31: check_rate_limit returns as limit the rate_limit_per_minute stored
\* for the key whenever a record for the key is stored, and the global default
\* RATE_LIMIT_PER_MINUTE only when none is stored; the count it returns is the
\* number of rate_limit_log rows of the key younger than 60 seconds.
C31_StoredLimitElseDefault ==
    [][ DbCheckRateLimit =>
          LET k == Val(fnIn').key
              r == fnOut'.value
          IN  /\ r[1] = Cardinality(YoungRows(rate_limit_log, k, clock))
              /\ r[2] = IF k \in DOMAIN api_keys
                        THEN api_keys[k].rate_limit_per_minute
                        ELSE RATE_LIMIT_PER_MINUTE ]_vars

\* The rows of `log` whose request_time is older than now - hours
OldRows(log, hours, now) ==
    { i \in 1..Len(log) : now - log[i].request_time > hours * 3600 }

\* C33: cleanup_old_rate_limits(hours) with hours >= 1 deletes exactly the
\* rate_limit_log rows older than now - hours, keeps the others in their
\* order, and returns the number of rows deleted; it removes no row younger
\* than 60 seconds, so check_rate_limit gives every key the same count
\* right before and right after the cleanup.
C33_CleanupDeletesOnlyOldRows ==
    [][ DbCleanup =>
          LET h   == Val(fnIn').hours
              old == OldRows(rate_limit_log, h, clock)
          IN  /\ rate_limit_log' =
                    SelectSeq(rate_limit_log,
                              LAMBDA r : ~(clock - r.request_time > h * 3600))
              /\ fnOut' = Returned(Cardinality(old))
              /\ Len(rate_limit_log') = Len(rate_limit_log) - Cardinality(old)
              /\ \A k \in KeyHashes :
                    /\ \A i \in YoungRows(rate_limit_log, k, clock) : i \notin old
                    /\ db_check_rate_limit(rate_limit_log', api_keys', k, clock')
                          = db_check_rate_limit(rate_limit_log, api_keys, k, clock)
              /\ api_keys' = api_keys ]_vars

\* a cleanup deleted an old row and kept a row younger than 60 seconds
C33_Witness ==
    /\ ~IsNull(fnIn)
    /\ Val(fnIn).op = "cleanup_old_rate_limits"
    /\ fnOut = Returned(1)
    /\ Len(Val(fnIn).before) = 2
    /\ Len(rate_limit_log) = 1
    /\ clock - rate_limit_log[1].request_time < WINDOW

----------------------------------------------------------------------------
(* The serverless entry point: handler.handler(event), which runs
   process_job for the job JobId when the required fields are there *)

\* if not job_input.get('job_id')
MissingJobId(inp) == ~Truthy(inp.job_id)

\* Variant: only the image URL is required
MissingFields_ImageOnly(inp) == ~Truthy(inp.image_url)

\* if not job_input.get('image_url') or not job_input.get('prompt')
MissingFields(inp) == ~Truthy(inp.image_url) \/ ~Truthy(inp.prompt)

\* The events handler can be called with
Events ==
    { [has_input |-> h,
       input |-> [job_id |-> j, image_url |-> u, prompt |-> p, webhook_url |-> w]] :
        h \in BOOLEAN,
        j \in {Null, Some(""), Some(JobId)},
        u \in {Null, Some(""), Some("https://example.com/a.jpg")},
        p \in {Null, Some(""), Some("zoom in")},
        w \in {Null, Some(""), Some("hook")} }

InitHandler ==
    /\ \E w \in {Null, Some("hook")} :
          jobs = (JobId :> NewJobRow("k1", w, 0))
    /\ clock = 0
    /\ calls = 0
    /\ ProcIdle
    /\ LimIdle
    /\ RlIdle
    /\ \E e \in Events : \E sec \in WebhookSecrets :
          /\ (~e.has_input => e.input = EmptyInput)
          /\ fnIn = Some([has_input |-> e.has_input, input |-> e.input,
                          secret |-> sec])
    /\ fnOut = Null

\* handler(event): an error result for missing fields, else process_job
HandlerCall ==
    /\ pc = "idle"
    /\ fnOut = Null
    /\ LET inp == job_input(Val(fnIn)) IN
       IF MissingJobId(inp)
       THEN /\ fnOut' = Returned([status |-> "failed",
                                  error  |-> "Missing required field: job_id"])
            /\ UNCHANGED pc
       ELSE IF MissingFields(inp)
       THEN /\ fnOut' = Returned([status |-> "failed",
                                  error  |-> "Missing required fields: image_url and/or prompt"])
            /\ UNCHANGED pc
       ELSE /\ pc' = "validate"
            /\ UNCHANGED fnOut
    /\ UNCHANGED <<storeVars, exc, localFile, generated, ret, whSite, attempt,
                   payload, posts, sleeps, sites, whResult, dbFault, completeOk,
                   trace>>
    /\ UNCHANGED <<limVars, rlVars, fnIn>>

NextHandler ==
    \/ HandlerCall
    \/ NextJob

SpecHandler == InitHandler /\ [][NextHandler]_vars

\* The event's input lacks job_id, image_url or prompt
LacksRequiredField(event) ==
    \/ ~event.has_input
    \/ ~Truthy(event.input.job_id)
    \/ ~Truthy(event.input.image_url)
    \/ ~Truthy(event.input.prompt)

\* C32: whenever the event's input lacks job_id, image_url or prompt,
\* process_job is never run (no job-store write, no generation, no upload, no
\* webhook) and what handler returns contains an 'error' entry.
C32_MissingFieldsRejectedUnrun ==
    LacksRequiredField(Val(fnIn)) =>
        /\ pc = "idle"
        /\ jobs[JobId].status = "queued"
        /\ \E w \in {Null, Some("hook")} : jobs = (JobId :> NewJobRow("k1", w, 0))
        /\ trace = <<>>
        /\ ~generated
        /\ posts = <<>>
        /\ sites = <<>>
        /\ IsNull(ret)
        /\ fnOut # Null =>
              /\ fnOut.kind = "return"
              /\ "error" \in DOMAIN fnOut.value

\* an event with job_id and image_url but an empty prompt was answered
C32_Witness ==
    /\ fnOut # Null
    /\ Val(fnIn).has_input
    /\ Val(fnIn).input.job_id = Some(JobId)
    /\ Truthy(Val(fnIn).input.image_url)
    /\ Val(fnIn).input.prompt = Some("")
    /\ fnOut.value.status = "failed"
    /\ pc = "idle"

----------------------------------------------------------------------------
(* Invariants of the in-memory rate limiter, under SpecLimiter *)

\* C34: with a constant limit N, for every key the admitted requests whose
\* timestamps lie within a span of less than 60 seconds number at most N,
\* and right after a check_rate_limit call the list stored for the key holds
\* at most N timestamps, all younger than 60 seconds.
C34_AtMostNPerWindow ==
    /\ \A k \in DOMAIN admitted :
          \A i, j \in 1..Len(admitted[k]) :
             (i <= j /\ admitted[k][j] - admitted[k][i] < WINDOW) =>
                j - i + 1 <= LimitN
    /\ (~IsNull(lastCall) /\ clock = Val(lastCall).at) =>
          LET ts == requests[Val(lastCall).key] IN
          /\ Len(ts) <= LimitN
          /\ \A i \in 1..Len(ts) : clock - ts[i] < WINDOW /\ ts[i] <= clock

\* a call was admitted into a list that is full again after older
\* timestamps of the key were pruned
C34_Witness ==
    /\ ~IsNull(lastCall)
    /\ clock = Val(lastCall).at
    /\ Val(lastCall).result = TRUE
    /\ Len(Val(lastCall).prior) > LimitN
    /\ Len(requests[Val(lastCall).key]) = LimitN
    /\ Len(Val(lastCall).before) = LimitN

----------------------------------------------------------------------------
(* What the webhook receiver sees during one run of process_job, under
   SpecJob *)

\* C35: every webhook POST sent during process_job carries the status
\* 'completed' or 'failed', never 'queued' or 'processing', also in runs in
\* which fail_job itself fails before the failure webhook is dispatched.
C35_PostsCarryTerminalStatus ==
    \A i \in 1..Len(posts) : posts[i].payload.status \in Terminal

\* C36: during one run of process_job the POSTs the receiver gets all carry
\* the same status, and send_completion_webhook is dispatched for at most one
\* outcome of the run, also when an error is raised while the completion
\* webhook is being delivered or recorded.
C36_OneOutcomePerRun ==
    /\ \A i, j \in 1..Len(posts) :
          posts[i].payload.status = posts[j].payload.status
    /\ Len(sites) <= 1

----------------------------------------------------------------------------
(* api_server: the background task process_job(job_id, req), run on a worker
   thread, against DELETE /jobs/{job_id}, run on the event loop. `jobs` is
   the module's jobs dict, `localFile` the generated video on disk, `pc` the
   position of the background task and `req` the DELETE requests. *)

\* The DELETE requests made for the job; they run one after the other
Deleters == {"d1", "d2", "d3"}

\* The path generate_video returns
OutputPath == "out.mp4"

\* generate(): jobs[job_id] = {'status': 'queued', ...} and the task is added
InitApi ==
    /\ jobs = (JobId :> [status |-> "queued", path |-> Null, error |-> Null])
    /\ clock = 0
    /\ calls = 0
    /\ pc = "bg_pending"
    /\ exc = Null
    /\ localFile = FALSE
    /\ generated = FALSE
    /\ ret = Null
    /\ whSite = "none"
    /\ attempt = 0
    /\ payload = Null
    /\ posts = <<>>
    /\ sleeps = <<>>
    /\ sites = <<>>
    /\ whResult = Null
    /\ dbFault = FALSE
    /\ completeOk = FALSE
    /\ trace = <<>>
    /\ LimIdle
    /\ FnIdle
    /\ rate_limit_log = <<>>
    /\ api_keys = EmptyTable
    /\ req = [d \in Deleters |-> [pc |-> "start", status_code |-> 0]]

\* What the background task leaves alone
BgFrame ==
    UNCHANGED <<clock, calls, exc, ret, whSite, attempt, payload, posts, sleeps,
                sites, whResult, dbFault, completeOk, trace, limVars, rlVars,
                fnVars>>

\* jobs[job_id]['status'] = 'processing': a KeyError here ends the task.
\* Nothing is computed between the lookup and the store; a DELETE between
\* the two leaves what a DELETE right after the store leaves.
BgMarkProcessing ==
    /\ pc = "bg_pending"
    /\ IF JobId \in DOMAIN jobs
       THEN /\ jobs' = [jobs EXCEPT ![JobId].status = "processing"]
            /\ pc' = "bg_generate"
       ELSE /\ pc' = "bg_died"
            /\ UNCHANGED jobs
    /\ UNCHANGED <<localFile, generated>>
    /\ BgFrame

\* path = generate_video(...): the file is written, or the call raises
BgGenerate ==
    /\ pc = "bg_generate"
    /\ \/ /\ localFile' = TRUE
          /\ generated' = TRUE
          /\ pc' = "bg_store"
       \/ /\ pc' = "bg_except"
          /\ UNCHANGED <<localFile, generated>>
    /\ UNCHANGED jobs
    /\ BgFrame

\* jobs[job_id].update({'status': 'done', 'path': path, ...}), first part:
\* the lookup jobs[job_id]; a KeyError is caught by "except Exception".
\* The argument is built (datetime.now(), round) after the lookup, so the
\* event loop can run a DELETE before the update.
BgStoreDone ==
    /\ pc = "bg_store"
    /\ IF JobId \in DOMAIN jobs
       THEN pc' = "bg_store_update"
       ELSE pc' = "bg_except"
    /\ UNCHANGED <<jobs, localFile, generated>>
    /\ BgFrame

\* ... second part: update of the row that was looked up. When the row has
\* been deleted from the map meanwhile, the update changes a dict the map no
\* longer holds; the task returns normally either way.
BgStoreDoneUpdate ==
    /\ pc = "bg_store_update"
    /\ IF JobId \in DOMAIN jobs
       THEN jobs' = [jobs EXCEPT ![JobId].status = "done",
                                 ![JobId].path = Some(OutputPath)]
       ELSE UNCHANGED jobs
    /\ pc' = "bg_done"
    /\ UNCHANGED <<localFile, generated>>
    /\ BgFrame

\* except Exception as e: jobs[job_id].update({'status': 'error', ...}),
\* first part: the lookup jobs[job_id]; a KeyError here ends the task. The
\* argument is built (str(e), datetime.now()) after the lookup.
BgExcept ==
    /\ pc = "bg_except"
    /\ IF JobId \in DOMAIN jobs
       THEN pc' = "bg_except_update"
       ELSE pc' = "bg_died"
    /\ UNCHANGED <<jobs, localFile, generated>>
    /\ BgFrame

\* ... second part: update of the row that was looked up, in the map or
\* deleted from it meanwhile
BgExceptUpdate ==
    /\ pc = "bg_except_update"
    /\ IF JobId \in DOMAIN jobs
       THEN jobs' = [jobs EXCEPT ![JobId].status = "error",
                                 ![JobId].error = Some("e")]
       ELSE UNCHANGED jobs
    /\ pc' = "bg_done"
    /\ UNCHANGED <<localFile, generated>>
    /\ BgFrame

\* What a DELETE request leaves alone
DelFrame ==
    UNCHANGED <<clock, calls, pc, exc, generated, ret, whSite, attempt, payload,
                posts, sleeps, sites, whResult, dbFault, completeOk, trace,
                limVars, fnVars, rate_limit_log, api_keys>>

\* No other DELETE request is between its first and its last statement:
\* delete_job has no await
NoDeleteRunning == \A d \in Deleters : req[d].pc \in {"start", "done"}

\* if job_id not in jobs: raise HTTPException(status_code=404)
DelCheck ==
    /\ NoDeleteRunning
    /\ \E d \in Deleters :
          /\ req[d].pc = "start"
          /\ IF JobId \in DOMAIN jobs
             THEN req' = [req EXCEPT ![d].pc = "path"]
             ELSE req' = [req EXCEPT ![d].pc = "done", ![d].status_code = 404]
    /\ UNCHANGED <<jobs, localFile>>
    /\ DelFrame

\* job = jobs[job_id]; if job.get('path') and os.path.exists(job['path'])
DelPath ==
    /\ \E d \in Deleters :
          /\ req[d].pc = "path"
          /\ IF ~IsNull(jobs[JobId].path) /\ localFile
             THEN req' = [req EXCEPT ![d].pc = "remove"]
             ELSE req' = [req EXCEPT ![d].pc = "del"]
    /\ UNCHANGED <<jobs, localFile>>
    /\ DelFrame

\* os.remove(job['path'])
DelRemove ==
    /\ \E d \in Deleters :
          /\ req[d].pc = "remove"
          /\ localFile' = FALSE
          /\ req' = [req EXCEPT ![d].pc = "del"]
    /\ UNCHANGED jobs
    /\ DelFrame

\* del jobs[job_id]; return {"message": ...}
DelDel ==
    /\ \E d \in Deleters :
          /\ req[d].pc = "del"
          /\ jobs' = [j \in DOMAIN jobs \ {JobId} |-> jobs[j]]
          /\ req' = [req EXCEPT ![d].pc = "done", ![d].status_code = 200]
    /\ UNCHANGED localFile
    /\ DelFrame

NextApi ==
    \/ BgMarkProcessing
    \/ BgGenerate
    \/ BgStoreDone
    \/ BgStoreDoneUpdate
    \/ BgExcept
    \/ BgExceptUpdate
    \/ DelCheck
    \/ DelPath
    \/ DelRemove
    \/ DelDel

SpecApi == InitApi /\ [][NextApi]_vars

\* The background task has ended, by returning or by an uncaught KeyError
BgFinished == pc \in {"bg_done", "bg_died"}

\* Every DELETE request has been answered, one of them with success
DeleteFinished ==
    /\ \A d \in Deleters : req[d].pc = "done"
    /\ \E d \in Deleters : req[d].status_code = 200

\* C37: for every interleaving of DELETE /jobs/{id} with the job's
\* background process_job, once both have finished the job is absent from the
\* jobs map and no generated video file of the job remains on disk.
C37_DeleteRemovesRecordAndFile ==
    (BgFinished /\ DeleteFinished) =>
        /\ JobId \notin DOMAIN jobs
        /\ ~localFile

----------------------------------------------------------------------------
(* The keys Settings accepts against the keys verify_api_key accepts, under
   SpecAuth *)

\* str.strip(): leading and trailing whitespace removed, the whitespace
\* being the 29 characters str.isspace() holds for
RECURSIVE strip(_)
strip(str) ==
    LET Whitespace == { 9, 10, 11, 12, 13, 28, 29, 30, 31, 32, 133, 160,
                       5760, 8192, 8193, 8194, 8195, 8196, 8197, 8198,
                       8199, 8200, 8201, 8202, 8232, 8233, 8239, 8287,
                       12288 }
    IN  IF str = <<>> THEN str
        ELSE IF Head(str) \in Whitespace THEN strip(Tail(str))
        ELSE IF str[Len(str)] \in Whitespace
        THEN strip(SubSeq(str, 1, Len(str) - 1))
        ELSE str

\* Settings.parse_api_keys on the pieces of v.split(','): the stripped
\* non-empty pieces, or ValueError when there is none or one is shorter than
\* 16 characters
parse_api_keys(pieces) ==
    LET stripped == [i \in 1..Len(pieces) |-> strip(pieces[i])]
        keys     == SelectSeq(stripped, LAMBDA k : k # <<>>)
    IN  IF keys = <<>>
        THEN Raised("ValueError", "At least one API key is required")
        ELSE IF \E i \in 1..Len(keys) : Len(keys[i]) < API_KEY_MIN_LENGTH
        THEN Raised("ValueError", "API key too short")
        ELSE Returned(keys)

\* Settings accepts API_KEYS made of the configured keys, as they are
SettingsAcceptsConfiguredKeys ==
    parse_api_keys(fnIn.configured_keys) = Returned(fnIn.configured_keys)

\* C38: every API key that Settings accepts in API_KEYS (non-empty after
\* trimming, at least 16 characters long) authenticates: presenting it to
\* verify_api_key returns its fingerprint and does not raise
\* AuthenticationError.
C38_AcceptedKeysAuthenticate ==
    (/\ ~IsNull(fnOut)
     /\ SettingsAcceptsConfiguredKeys
     /\ ~IsNull(fnIn.x_api_key)
     /\ IsConfigured) =>
        /\ Val(fnOut).out.kind = "return"
        /\ Val(fnOut).out = hash_api_key(Val(fnIn.x_api_key))

====
